---- MODULE Spec2Model ----
(***************************************************************************)
(* Model of src/src/mcp/mcpGen.ts: an MCP system as createMCPSystem        *)
(* builds it (MessageBus + SwarmRunner + PolicyEngine), the generator that *)
(* holds it under its id, and a second system of the same generator.       *)
(*                                                                         *)
(* JavaScript runs one callback to completion at a time, so every action   *)
(* below is one macrotask or one promise continuation: a synchronous call  *)
(* (publish with its whole fan-out, start, stop, registerAgent ...) or the *)
(* part of an async function between two awaits.                           *)
(* Latency and uptime are not modelled.  Numbers read from the clock and    *)
(* the random digits of generated identifiers are modelled by their        *)
(* printed form.                                                           *)
(***************************************************************************)
EXTENDS Integers, Sequences, FiniteSets, Bags, TLC

VARIABLES
    messageQueue,      \* MessageBus.messageQueue
    messageHistory,    \* MessageBus.messageHistory
    subscribers,       \* MessageBus.subscribers: topic -> callbacks in insertion order
    errorListener,     \* TRUE iff a listener is attached to the bus's 'error' event
    unsubs,            \* unsubscribe closures handed out by subscribe: <<topic, callback>>
    fired,             \* publishing callbacks that have already published (their own flag)
    agents,            \* SwarmRunner.agents: ids in Map insertion order
    isRunning,         \* SwarmRunner.isRunning
    processInterval,   \* SwarmRunner.processInterval: TRUE iff it holds a timer handle
    timers,            \* the interval timers of the coordinator active in the runtime
    processedMessages, \* SwarmRunner.metrics.processedMessages
    failedMessages,    \* SwarmRunner.metrics.failedMessages
    ticks,             \* processMessages invocations suspended at `await recipient.process`
    policies,          \* PolicyEngine.policies: ids in Map insertion order
    enabled,           \* Policy.enabled of every policy object
    evals,             \* evaluatePolicies invocations suspended at `await policy.action`
    policyContext,     \* PolicyEngine.policyContext (its agents: a set of agent ids)
    nextSeq,           \* history: number of publish calls so far
    delivered,         \* history: subscriber invocations <<callback, message seq>>
    emitted,           \* history: bag of the message events emitted on the bus
    handed,            \* history: agent invocations <<message seq, agent>>
    evalLog,           \* history: policy predicate evaluations <<policy, message seq>>
    regRank,           \* history: agent id -> rank of its latest registration among the
                       \*          registered agents (0: not registered)
    threw,             \* history: seqs of the messages whose publish call threw
    enabledAt,         \* history: the policies registered and enabled at each publish
    registeredAt,      \* history: PolicyEngine.policies as it was at each publish
    sent,              \* history: every message published, in publish order
    removed,           \* history: the agent ids that were unregistered at some time
    lifecycle,         \* history: the events the latest start() or stop() call emitted
    messageBuses,      \* MCPGenerator.messageBuses: system id -> the bus held under it
    swarmRunners,      \* MCPGenerator.swarmRunners: system id -> the coordinator
    policyEngines,     \* MCPGenerator.policyEngines: system id -> the policy engine
                       \* (a component is named by the number of the createMCPSystem
                       \* call that constructed it)
    swarmId,           \* SwarmRunner.swarmId of the system the variables above describe
    instance,          \* the number of the system whose components the variables above
                       \* describe (the objects createMCPSystem returned to the caller)
    other,             \* the fields of the components of the second system a caller
                       \* holds, if there is one: <<>> or <<record>>
    uncalled,          \* history: per <<topic, callback>>, the subscribe calls whose
                       \*          unsubscribe closure has not been called yet
    called,            \* history: the <<topic, callback>> with a closure already called
    held,              \* the list a caller got from getQueue and still holds, if any:
                       \* <<>> or <<[alias, list]>> (alias: it is the bus's own array)
    observer,          \* TRUE iff a caller records what its calls to the registries
                       \* throw and listens to the events they emit
    reported           \* history: what the observer recorded of the step just taken:
                       \*          the error thrown or the registry event emitted
                       \*          (empty for every other step)

vars == <<messageQueue, messageHistory, subscribers, errorListener, unsubs, fired,
          agents, isRunning, processInterval, processedMessages, failedMessages,
          ticks, policies, enabled, evals, nextSeq, delivered, emitted, handed,
          evalLog, regRank, threw, enabledAt, sent, removed, timers, policyContext,
          lifecycle, registeredAt, messageBuses, swarmRunners, policyEngines,
          swarmId, instance, other, uncalled, called, held, observer, reported>>

busVars == <<messageQueue, messageHistory, subscribers, errorListener, unsubs, fired,
             nextSeq, delivered, threw, sent>>
swarmVars == <<agents, isRunning, processInterval, processedMessages, failedMessages,
               ticks, handed, regRank, removed, timers, lifecycle>>
policyVars == <<policies, enabled, evals, evalLog, enabledAt, policyContext,
                registeredAt>>
closureVars == <<uncalled, called, held>>
generatorVars == <<messageBuses, swarmRunners, policyEngines, swarmId, instance, other>>

----------------------------------------------------------------------------
(* Bounds of the model *)

MaxPublishes == 2      \* publish calls by callers (SpecBus, SpecSwarm, SpecFailure)
MaxRouted == 1         \* publish calls by callers (SpecRouting, SpecRecipient)
MaxObserved == 1       \* publish calls by callers (SpecPolicy)
MaxSubscribes == 2     \* subscribe calls by callers with distinct arguments
MaxTicks == 2          \* processMessages invocations in flight at once (SpecSwarm)
MaxOverlap == 1        \* processMessages invocations in flight at once (SpecRouting,
                       \* SpecFailure, SpecHistory)
MaxStored == 3         \* publish calls by callers (SpecHistory)
MaxRegistrations == 2  \* subscribe calls of one callback under one topic whose
                       \* unsubscribe closure has not been called
MaxCreates == 2        \* systems created under one id, one after the other
MaxSystems == 3        \* systems created under two ids (SpecFactory)

----------------------------------------------------------------------------
(* Values *)

Undefined == "undefined"          \* an absent optional field
Truthy(s) == s # Undefined /\ s # ""   \* JavaScript truthiness of an optional string
TruthyNumber(n) == n # Undefined /\ n # "0"   \* ... of an optional number (printed)

\* A message as a caller passes it to publish.  type and recipient stand for the
\* fields publish copies (type, sender, recipient, payload, metadata).
Message(type, recipient) ==
    [type |-> type, recipient |-> recipient, id |-> Undefined,
     timestamp |-> Undefined, priority |-> Undefined]

Wildcard == "*"
Types == {"doc", "img", Wildcard}          \* message types callers publish
Topics == {"doc", Wildcard}                \* topics callers subscribe to

\* Callbacks: the policy engine's own and three kinds of caller callbacks.
Callbacks == {"pe", "c1", "c2", "c3"}
CbKind(cb) ==
    CASE cb = "pe" -> "policy"     \* (message) => { this.evaluatePolicies(message) }
      [] cb = "c1" -> "ok"         \* returns normally
      [] cb = "c2" -> "throw"      \* throws
      [] cb = "c3" -> "publish"    \* on its first invocation publishes NestedMessage
NestedMessage == Message("doc", Undefined)

\* Agents: id and capabilities.  The empty string is a legal id.
AgentIds == {"A1", "A2", ""}
capabilities(a) ==
    CASE a = "A1" -> {"doc"}
      [] a = "A2" -> {"doc", "img"}
      [] a = ""   -> {}

\* Policies: priority and what the predicate does.
PolicyIds == {"p1", "p2", "p3"}
priority(p) == CASE p = "p1" -> 10 [] p = "p2" -> 10 [] p = "p3" -> 5
condition(p, m) ==
    CASE p = "p1" -> "true"
      [] p = "p2" -> "throw"
      [] p = "p3" -> IF m.type = "doc" THEN "true" ELSE "false"

maxHistorySize == 2    \* MessageBus constructor argument

\* What the caller of a registry operation gets to know of r, the error the call
\* threw or the event it emitted.
report(r) == IF observer THEN r ELSE <<>>

Event(ev, seq, who) == [ev |-> ev, msg |-> seq, who |-> who]
Emit(bag, e) == bag (+) SetToBag({e})
Count(bag, e) == CopiesIn(e, bag)

Remove(seq, x) == SelectSeq(seq, LAMBDA y : y # x)
Contains(seq, x) == \E i \in 1..Len(seq) : seq[i] = x
Times(seq, x) == Cardinality({i \in 1..Len(seq) : seq[i] = x})
IndexOf(seq, x) == CHOOSE i \in 1..Len(seq) : seq[i] = x /\ \A j \in 1..(i-1) : seq[j] # x

----------------------------------------------------------------------------
(* PolicyEngine.evaluatePolicies *)

\* Array.prototype.sort with (a, b) => b.priority - a.priority: stable, descending.
RECURSIVE InsertByPriority(_, _)
InsertByPriority(sorted, p) ==
    IF sorted = <<>> THEN <<p>>
    ELSE IF priority(sorted[Len(sorted)]) >= priority(p) THEN Append(sorted, p)
    ELSE Append(InsertByPriority(SubSeq(sorted, 1, Len(sorted) - 1), p),
                sorted[Len(sorted)])

RECURSIVE SortByPriority(_, _)
SortByPriority(seq, n) ==
    IF n = 0 THEN <<>> ELSE InsertByPriority(SortByPriority(seq, n - 1), seq[n])

sortedPolicies(pols, en) ==
    LET live == SelectSeq(pols, LAMBDA p : en[p]) IN SortByPriority(live, Len(live))

\* The for loop of evaluatePolicies from position i on, up to the next
\* `await policy.action(...)` or the end of the list.  st carries emitted,
\* evalLog and evals.
RECURSIVE evaluatePolicies(_, _, _, _)
evaluatePolicies(st, m, sorted, i) ==
    IF i > Len(sorted) THEN st
    ELSE LET p == sorted[i]
             st1 == [st EXCEPT !.evalLog = Append(@, <<p, m.seq>>)]
             c == condition(p, m)
         IN  CASE c = "throw" ->
                    evaluatePolicies(
                        [st1 EXCEPT !.emitted = Emit(@, Event("policy:error", m.seq, p))],
                        m, sorted, i + 1)
               [] c = "false" -> evaluatePolicies(st1, m, sorted, i + 1)
               [] c = "true" ->
                    [st1 EXCEPT !.evals = Append(@, [msg |-> m, sorted |-> sorted, i |-> i])]

----------------------------------------------------------------------------
(* MessageBus.publish and notifySubscribers *)

\* this.emit('error', ...) inside a catch block: EventEmitter throws when no
\* 'error' listener is attached.
emitError(st, m, text) ==
    IF errorListener
    THEN [st EXCEPT !.thrown = FALSE, !.emitted = Emit(@, Event("error", m.seq, text))]
    ELSE [st EXCEPT !.thrown = TRUE]

\* `msg_${Date.now()}_${Math.random().toString(36).substr(2, 9)}`
generateMessageId(now, random) == "msg_" \o now \o "_" \o random

RECURSIVE publish(_, _)
RECURSIVE forEach(_, _, _, _, _)

\* One callback(message) inside its try/catch.
invoke(st, cb, m, text) ==
    LET st1 == [st EXCEPT !.delivered = Append(@, <<cb, m.seq>>)]
        k == CbKind(cb)
    IN  CASE k = "ok" -> st1
          [] k = "throw" -> emitError(st1, m, text)
          [] k = "policy" ->
                evaluatePolicies(st1, m, sortedPolicies(policies, enabled), 1)
          [] k = "publish" ->
                IF cb \in st1.fired THEN st1
                ELSE LET r == publish([st1 EXCEPT !.fired = @ \cup {cb}], NestedMessage)
                     IN  IF r.thrown THEN emitError(r, m, text) ELSE r

\* Set.prototype.forEach over the callbacks of one topic, from position i on.
forEach(st, subs, i, m, text) ==
    IF i > Len(subs) THEN st
    ELSE LET st1 == invoke(st, subs[i], m, text)
         IN  IF st1.thrown THEN st1 ELSE forEach(st1, subs, i + 1, m, text)

notifySubscribers(st, m) ==
    LET typeSubscribers ==
            IF m.type \in DOMAIN subscribers THEN subscribers[m.type] ELSE <<>>
        broadcastSubscribers ==
            IF Wildcard \in DOMAIN subscribers THEN subscribers[Wildcard] ELSE <<>>
        st1 == forEach(st, typeSubscribers, 1, m, "Subscriber callback error")
    IN  IF st1.thrown THEN st1
        ELSE forEach(st1, broadcastSubscribers, 1, m, "Broadcast subscriber callback error")

\* (a bug for C18: the newest entry is dropped instead of the oldest)
shiftHistoryNewest(h) ==
    IF Len(h) > maxHistorySize THEN SubSeq(h, 1, Len(h) - 1) ELSE h

shiftHistory(h) ==
    IF Len(h) > maxHistorySize THEN SubSeq(h, 2, Len(h)) ELSE h

\* st.now is what Date.now() returns during the call and st.random the digits the
\* next calls of Math.random() give; seq is the identity of the enriched object.
publish(st, message) ==
    LET enrichedMessage ==
            [seq |-> st.nextSeq + 1, type |-> message.type,
             recipient |-> message.recipient,
             timestamp |-> IF TruthyNumber(message.timestamp)
                           THEN message.timestamp ELSE st.now,
             id |-> IF Truthy(message.id) THEN message.id
                    ELSE generateMessageId(st.now, Head(st.random)),
             priority |-> IF Truthy(message.priority)
                          THEN message.priority ELSE "normal"]
        st1 == [st EXCEPT !.nextSeq = @ + 1,
                          !.random = IF Truthy(message.id) THEN @ ELSE Tail(@),
                          !.messageQueue = Append(@, enrichedMessage),
                          !.messageHistory = shiftHistory(Append(@, enrichedMessage)),
                          !.emitted = Emit(@, Event("message:published",
                                                    enrichedMessage.seq, "")),
                          !.sent = Append(@, enrichedMessage),
                          !.enabledAt = Append(@, {p \in PolicyIds :
                                                    Contains(policies, p) /\ enabled[p]}),
                          !.registeredAt = Append(@, policies)]
        st2 == notifySubscribers(st1, enrichedMessage)
    IN  IF st2.thrown THEN [st2 EXCEPT !.threw = @ \cup {enrichedMessage.seq}] ELSE st2

\* A caller's bus.publish(message), the whole synchronous call, at clock value now
\* and with random as the digits of the random numbers drawn during the call.
PublishWith(message, now, random) ==
    /\ LET st == publish([now |-> now, random |-> random,
                          nextSeq |-> nextSeq, messageQueue |-> messageQueue,
                          messageHistory |-> messageHistory, emitted |-> emitted,
                          delivered |-> delivered, fired |-> fired, evalLog |-> evalLog,
                          evals |-> evals, threw |-> threw, enabledAt |-> enabledAt, sent |-> sent,
                          registeredAt |-> registeredAt,
                          thrown |-> FALSE], message)
       IN  /\ nextSeq' = st.nextSeq
           /\ messageQueue' = st.messageQueue
           /\ messageHistory' = st.messageHistory
           /\ emitted' = st.emitted
           /\ delivered' = st.delivered
           /\ fired' = st.fired
           /\ evalLog' = st.evalLog
           /\ evals' = st.evals
           /\ threw' = st.threw
           /\ enabledAt' = st.enabledAt
           /\ registeredAt' = st.registeredAt
           /\ sent' = st.sent
    /\ UNCHANGED <<closureVars, generatorVars, observer,
                   subscribers, errorListener, unsubs, swarmVars, policies, enabled,
                   policyContext>>
    /\ reported' = <<>>

\* The clock values of the model, and the digits of the successive random numbers:
\* Math.random() is taken never to give the same digits twice, so that generated
\* identifiers differ and identifiers coincide only when callers supply them.
Clock == {"1", "2"}
RandomDigits == <<"a", "b", "c", "d", "e", "f", "g", "h">>
digitsAfter(n) == SubSeq(RandomDigits, n + 1, n + 2)

\* A caller's bus.publish(message) at one clock value (the specification of the
\* claims about identifiers and timestamps draws it from Clock with PublishWith).
Publish(message) == PublishWith(message, "1", digitsAfter(nextSeq))

\* bus.subscribe(messageType, callback); the returned closure is kept in unsubs.
Subscribe(messageType, callback) ==
    /\ <<messageType, callback>> \in unsubs \/ Cardinality(unsubs) < MaxSubscribes
    /\ uncalled' = [uncalled EXCEPT ![<<messageType, callback>>] = @ + 1]
    /\ UNCHANGED <<called, held>>
    /\ LET set == IF messageType \in DOMAIN subscribers
                  THEN subscribers[messageType] ELSE <<>>
           added == IF Contains(set, callback) THEN set ELSE Append(set, callback)
       IN  subscribers' = [t \in DOMAIN subscribers \cup {messageType} |->
                              IF t = messageType THEN added ELSE subscribers[t]]
    /\ unsubs' = unsubs \cup {<<messageType, callback>>}
    /\ UNCHANGED <<generatorVars, observer,
                   messageQueue, messageHistory, errorListener, fired, nextSeq,
                   delivered, threw, sent, emitted, swarmVars, policyVars>>
    /\ reported' = <<>>

\* Calling a closure returned by subscribe(messageType, callback): one that has
\* not been called yet, or one that has been called before.
Unsubscribe(messageType, callback) ==
    /\ <<messageType, callback>> \in unsubs
    /\ \/ /\ uncalled[<<messageType, callback>>] > 0
          /\ uncalled' = [uncalled EXCEPT ![<<messageType, callback>>] = @ - 1]
          /\ called' = called \cup {<<messageType, callback>>}
       \/ /\ <<messageType, callback>> \in called
          /\ UNCHANGED <<uncalled, called>>
    /\ UNCHANGED held
    /\ subscribers' = [t \in DOMAIN subscribers |->
                          IF t = messageType THEN Remove(subscribers[t], callback)
                          ELSE subscribers[t]]
    /\ UNCHANGED <<generatorVars, observer,
                   messageQueue, messageHistory, errorListener, unsubs, fired, nextSeq,
                   delivered, threw, sent, emitted, swarmVars, policyVars>>
    /\ reported' = <<>>

\* bus.clearQueue() by a caller
ClearQueue ==
    /\ messageQueue' = <<>>
    /\ UNCHANGED <<closureVars, generatorVars, observer,
                   messageHistory, subscribers, errorListener, unsubs, fired, nextSeq,
                   delivered, threw, sent, emitted, swarmVars, policyVars>>
    /\ reported' = <<>>

\* (a bug for C38: the bus's own array is returned)
getQueueItself == [alias |-> TRUE, list |-> <<>>]

\* bus.getQueue(): [...this.messageQueue], a new array with the same elements
getQueue == [alias |-> FALSE, list |-> messageQueue]

\* A caller calls bus.getQueue() and keeps the list it returns.
GetQueue ==
    /\ held' = <<getQueue>>
    /\ UNCHANGED <<uncalled, called, generatorVars, observer, busVars, emitted,
                   swarmVars, policyVars>>
    /\ reported' = <<>>

\* The elements of the list the caller holds
heldList == IF held[1].alias THEN messageQueue ELSE held[1].list

\* The caller removes the first element of the list it holds (list.shift()).
ChangeHeld ==
    /\ held # <<>>
    /\ heldList # <<>>
    /\ IF held[1].alias
       THEN messageQueue' = Tail(messageQueue) /\ UNCHANGED held
       ELSE held' = <<[held[1] EXCEPT !.list = Tail(@)]>> /\ UNCHANGED messageQueue
    /\ UNCHANGED <<uncalled, called, generatorVars, observer,
                   messageHistory, subscribers, errorListener, unsubs, fired, nextSeq,
                   delivered, threw, sent, emitted, swarmVars, policyVars>>
    /\ reported' = <<>>

\* bus.on('error', listener) with a listener that returns normally.
OnError ==
    /\ ~errorListener
    /\ errorListener' = TRUE
    /\ UNCHANGED <<closureVars, generatorVars, observer,
                   messageQueue, messageHistory, subscribers, unsubs, fired, nextSeq,
                   delivered, threw, sent, emitted, swarmVars, policyVars>>
    /\ reported' = <<>>

\* A caller starts to record what its registry calls throw, and attaches listeners
\* that return normally to the registry events of the bus.
Observe ==
    /\ ~observer
    /\ observer' = TRUE
    /\ reported' = <<>>
    /\ UNCHANGED <<busVars, emitted, swarmVars, policyVars, closureVars, generatorVars>>

----------------------------------------------------------------------------
(* SwarmRunner *)

\* Array.from(this.agents.values()).find(agent => agent.capabilities.includes(type))
RECURSIVE find(_, _, _)
find(ags, type, i) ==
    IF i > Len(ags) THEN Undefined
    ELSE IF type \in capabilities(ags[i]) THEN ags[i]
    ELSE find(ags, type, i + 1)

\* (a bug for C9: the last capable agent instead of the first)
RECURSIVE findLast(_, _, _)
findLast(ags, type, i) ==
    IF i < 1 THEN Undefined
    ELSE IF type \in capabilities(ags[i]) THEN ags[i]
    ELSE findLast(ags, type, i - 1)

findCapableAgentLast(message, ags) == findLast(ags, message.type, Len(ags))

findCapableAgent(message, ags) == find(ags, message.type, 1)

\* message.recipient ? this.agents.get(message.recipient) : this.findCapableAgent(message)
recipientOf(message, ags) ==
    IF Truthy(message.recipient)
    THEN IF Contains(ags, message.recipient) THEN message.recipient ELSE Undefined
    ELSE findCapableAgent(message, ags)

\* (a bug for C12: recipient.process(message) is not awaited)
RECURSIVE processMessagesNoAwait(_, _, _)
processMessagesNoAwait(st, queue, i) ==
    IF i > Len(queue) THEN [st EXCEPT !.await = <<>>]
    ELSE LET message == queue[i]
             recipient == recipientOf(message, agents)
         IN  IF recipient = Undefined
             THEN processMessagesNoAwait(
                      [st EXCEPT !.emitted =
                           Emit(@, Event("message:unrouted", message.seq, ""))],
                      queue, i + 1)
             ELSE processMessagesNoAwait(
                      [st EXCEPT !.handed = Append(@, <<message.seq, recipient>>)],
                      queue, i + 1)

\* The for loop of processMessages from position i of its queue snapshot on, up to
\* the next `await recipient.process(message)` (await holds the suspended tick) or
\* the end of the snapshot (await is empty, and clearQueue follows).
RECURSIVE processMessages(_, _, _)
processMessages(st, queue, i) ==
    IF i > Len(queue) THEN [st EXCEPT !.await = <<>>]
    ELSE LET message == queue[i]
             recipient == recipientOf(message, agents)
         IN  IF recipient = Undefined
             THEN processMessages(
                      [st EXCEPT !.emitted =
                           Emit(@, Event("message:unrouted", message.seq, ""))],
                      queue, i + 1)
             ELSE [st EXCEPT !.handed = Append(@, <<message.seq, recipient>>),
                             !.await = <<[queue |-> queue, i |-> i, agent |-> recipient]>>]

\* What a processMessages continuation leaves behind: the tick at position k of
\* ticks (Len(ticks) + 1: a new one) is suspended again, or has finished and
\* cleared the queue.
Resume(st, k) ==
    /\ emitted' = st.emitted
    /\ handed' = st.handed
    /\ messageQueue' = IF st.await = <<>> THEN <<>> ELSE messageQueue
    /\ ticks' = SubSeq(ticks, 1, k - 1) \o st.await \o SubSeq(ticks, k + 1, Len(ticks))

\* An active interval timer fires: processMessages() runs up to its first await.
TimerFires ==
    /\ timers > 0
    /\ Resume(processMessages([emitted |-> emitted, handed |-> handed,
                               await |-> <<>>], messageQueue, 1), Len(ticks) + 1)
    /\ UNCHANGED <<closureVars, generatorVars, observer,
                   messageHistory, subscribers, errorListener, unsubs, fired, nextSeq,
                   delivered, threw, sent, agents, isRunning, processInterval,
                   processedMessages, failedMessages, regRank,
                   removed, timers, lifecycle, policyVars>>
    /\ reported' = <<>>

\* (a bug for C11: a success that is not counted)
AgentResolvesUncounted(k) ==
    /\ k \in 1..Len(ticks)
    /\ LET t == ticks[k]
           done == Emit(emitted, Event("message:processed", t.queue[t.i].seq, t.agent))
       IN  Resume(processMessages([emitted |-> done, handed |-> handed,
                                   await |-> <<>>], t.queue, t.i + 1), k)
    /\ UNCHANGED <<closureVars, generatorVars, observer,
                   messageHistory, subscribers, errorListener, unsubs, fired, nextSeq,
                   delivered, threw, sent, agents, isRunning, processInterval,
                   processedMessages, failedMessages, regRank, removed, timers,
                   lifecycle, policyVars>>
    /\ reported' = <<>>

\* The promise of recipient.process(message) awaited by tick k is fulfilled.
AgentResolves(k) ==
    /\ k \in 1..Len(ticks)
    /\ processedMessages' = processedMessages + 1
    /\ LET t == ticks[k]
           done == Emit(emitted, Event("message:processed", t.queue[t.i].seq, t.agent))
       IN  Resume(processMessages([emitted |-> done, handed |-> handed,
                                   await |-> <<>>], t.queue, t.i + 1), k)
    /\ UNCHANGED <<closureVars, generatorVars, observer,
                   messageHistory, subscribers, errorListener, unsubs, fired, nextSeq,
                   delivered, threw, sent, agents, isRunning, processInterval,
                   failedMessages, regRank, removed, timers, lifecycle, policyVars>>
    /\ reported' = <<>>

\* (a bug for C10: the failure leaves the loop, the rest of the snapshot is dropped)
AgentRejectsAborts(k) ==
    /\ k \in 1..Len(ticks)
    /\ failedMessages' = failedMessages + 1
    /\ emitted' = Emit(emitted, Event("message:failed",
                                      ticks[k].queue[ticks[k].i].seq, "error"))
    /\ ticks' = SubSeq(ticks, 1, k - 1) \o SubSeq(ticks, k + 1, Len(ticks))
    /\ UNCHANGED <<closureVars, generatorVars, observer,
                   busVars, handed, agents, isRunning, processInterval,
                   processedMessages, regRank, removed, timers, lifecycle, policyVars>>
    /\ reported' = <<>>

\* The promise of recipient.process(message) awaited by tick k is rejected.
AgentRejects(k) ==
    /\ k \in 1..Len(ticks)
    /\ failedMessages' = failedMessages + 1
    /\ LET t == ticks[k]
           failed == Emit(emitted, Event("message:failed", t.queue[t.i].seq, "error"))
       IN  Resume(processMessages([emitted |-> failed, handed |-> handed,
                                   await |-> <<>>], t.queue, t.i + 1), k)
    /\ UNCHANGED <<closureVars, generatorVars, observer,
                   messageHistory, subscribers, errorListener, unsubs, fired, nextSeq,
                   delivered, threw, sent, agents, isRunning, processInterval,
                   processedMessages, regRank, removed, timers, lifecycle, policyVars>>
    /\ reported' = <<>>

\* (a bug for C26: no duplicate check, Map.set replaces the agent under its id)
RegisterAgentOverwrites(a) ==
    /\ IF Contains(agents, a)
       THEN UNCHANGED <<agents, regRank>>
       ELSE /\ agents' = Append(agents, a)
            /\ regRank' = [regRank EXCEPT ![a] = Len(agents) + 1]
    /\ reported' = report(<<"agent:registered">>)
    /\ UNCHANGED <<closureVars, generatorVars, observer,
                   busVars, emitted, isRunning, processInterval, processedMessages,
                   failedMessages, ticks, handed, removed, timers, lifecycle, policyVars>>

\* swarmRunner.registerAgent(agent): throws, changing nothing, on a duplicate id.
\* The events of registerAgent and unregisterAgent and those of the policy
\* registry have no listener; reported holds them for the call just made.
RegisterAgent(a) ==
    /\ IF Contains(agents, a)
       THEN /\ reported' = report(<<"Error", "agent">>)
            /\ UNCHANGED <<agents, regRank>>
       ELSE /\ agents' = Append(agents, a)
            /\ regRank' = [regRank EXCEPT ![a] = Len(agents) + 1]
            /\ reported' = report(<<"agent:registered">>)
    /\ UNCHANGED <<closureVars, generatorVars, observer,
                   busVars, emitted, isRunning, processInterval, processedMessages,
                   failedMessages, ticks, handed, removed, timers, lifecycle, policyVars>>

\* (a bug for C27: the event is emitted but the agent is not deleted)
UnregisterAgentNotDeleted(a) ==
    /\ reported' = IF Contains(agents, a) THEN report(<<"agent:unregistered">>) ELSE <<>>
    /\ UNCHANGED <<closureVars, generatorVars, observer, agents, regRank, removed,
                   busVars, emitted, isRunning, processInterval, processedMessages,
                   failedMessages, ticks, handed, timers, lifecycle, policyVars>>

\* swarmRunner.unregisterAgent(agentId)
UnregisterAgent(a) ==
    /\ IF Contains(agents, a)
       THEN /\ agents' = Remove(agents, a)
            /\ regRank' = [b \in AgentIds |->
                              IF b = a THEN 0
                              ELSE IF regRank[b] > regRank[a] THEN regRank[b] - 1
                              ELSE regRank[b]]
            /\ removed' = removed \cup {a}
            /\ reported' = report(<<"agent:unregistered">>)
       ELSE /\ reported' = <<>>
            /\ UNCHANGED <<agents, regRank, removed>>
    /\ UNCHANGED <<closureVars, generatorVars, observer,
                   busVars, emitted, isRunning, processInterval, processedMessages,
                   failedMessages, ticks, handed, timers, lifecycle, policyVars>>

\* (a bug for C14: start() does not look at isRunning)
StartAgain ==
    /\ isRunning' = TRUE
    /\ lifecycle' = <<"swarm:started">>
    /\ processInterval' = TRUE
    /\ timers' = timers + 1
    /\ UNCHANGED <<closureVars, generatorVars, observer,
                   busVars, emitted, agents, processedMessages, failedMessages, ticks,
                   handed, regRank, removed, policyVars>>
    /\ reported' = <<>>

\* swarmRunner.start(intervalMs)
Start ==
    /\ IF isRunning
       THEN /\ lifecycle' = <<>>
            /\ UNCHANGED <<isRunning, processInterval, timers>>
       ELSE /\ isRunning' = TRUE
            /\ lifecycle' = <<"swarm:started">>
            /\ processInterval' = TRUE
            /\ timers' = timers + 1
    /\ UNCHANGED <<closureVars, generatorVars, observer,
                   busVars, emitted, agents, processedMessages, failedMessages, ticks,
                   handed, regRank, removed, policyVars>>
    /\ reported' = <<>>

\* (a bug for C13: stop() forgets to clear the interval timer)
StopKeepsTimer ==
    /\ IF ~isRunning
       THEN /\ lifecycle' = <<>>
            /\ UNCHANGED isRunning
       ELSE /\ isRunning' = FALSE
            /\ lifecycle' = <<"swarm:stopped">>
    /\ UNCHANGED <<closureVars, generatorVars, observer,
                   busVars, emitted, agents, processInterval, timers, processedMessages,
                   failedMessages, ticks, handed, regRank, removed, policyVars>>
    /\ reported' = <<>>

\* What swarmRunner.stop() does to the coordinator.
stop ==
    IF ~isRunning
    THEN /\ lifecycle' = <<>>
         /\ UNCHANGED <<isRunning, processInterval, timers>>
    ELSE /\ isRunning' = FALSE
         /\ IF processInterval
            THEN timers' = timers - 1 /\ processInterval' = FALSE
            ELSE UNCHANGED <<processInterval, timers>>
         /\ lifecycle' = <<"swarm:stopped">>

\* swarmRunner.stop()
Stop ==
    /\ stop
    /\ UNCHANGED <<closureVars, generatorVars, observer,
                   busVars, emitted, agents, processedMessages, failedMessages, ticks,
                   handed, regRank, removed, policyVars>>
    /\ reported' = <<>>

----------------------------------------------------------------------------
(* PolicyEngine *)

\* (a bug for C28: no duplicate check, Map.set replaces the policy under its id)
RegisterPolicyOverwrites(p, en) ==
    /\ policies' = IF Contains(policies, p) THEN policies ELSE Append(policies, p)
    /\ enabled' = [enabled EXCEPT ![p] = en]
    /\ reported' = report(<<"policy:registered">>)
    /\ UNCHANGED <<closureVars, generatorVars, observer,
                   busVars, emitted, swarmVars, evals, evalLog, enabledAt,
                   policyContext, registeredAt>>

\* policyEngine.registerPolicy(policy), policy.enabled being en: throws, changing
\* nothing, on a duplicate id.
RegisterPolicy(p, en) ==
    /\ IF Contains(policies, p)
       THEN /\ reported' = report(<<"Error", "policy">>)
            /\ UNCHANGED <<policies, enabled>>
       ELSE /\ policies' = Append(policies, p)
            /\ enabled' = [enabled EXCEPT ![p] = en]
            /\ reported' = report(<<"policy:registered">>)
    /\ UNCHANGED <<closureVars, generatorVars, observer,
                   busVars, emitted, swarmVars, evals, evalLog, enabledAt,
                   policyContext, registeredAt>>

\* policyEngine.unregisterPolicy(policyId).  The flag of an unregistered policy
\* object is never read again: enabled keeps FALSE for it.
UnregisterPolicy(p) ==
    /\ policies' = Remove(policies, p)
    /\ enabled' = [enabled EXCEPT ![p] = FALSE]
    /\ reported' = IF Contains(policies, p)
                   THEN report(<<"policy:unregistered">>) ELSE <<>>
    /\ UNCHANGED <<closureVars, generatorVars, observer,
                   busVars, emitted, swarmVars, evals, evalLog, enabledAt,
                   policyContext, registeredAt>>

\* policyEngine.enablePolicy(policyId) (flag TRUE) and disablePolicy (flag FALSE)
setEnabled(p, flag) ==
    /\ IF Contains(policies, p)
       THEN /\ enabled' = [enabled EXCEPT ![p] = flag]
            /\ reported' = report(<<IF flag THEN "policy:enabled" ELSE "policy:disabled">>)
       ELSE /\ reported' = <<>>
            /\ UNCHANGED enabled
    /\ UNCHANGED <<closureVars, generatorVars, observer,
                   busVars, emitted, swarmVars, policies, evals, evalLog, enabledAt,
                   policyContext, registeredAt>>

EnablePolicy(p) == setEnabled(p, TRUE)

DisablePolicy(p) == setEnabled(p, FALSE)

\* What an evaluatePolicies continuation of the evaluation at position k of evals
\* leaves behind: evaluation k is replaced by its next suspension, if there is one.
ResumeEval(st, k) ==
    /\ emitted' = st.emitted
    /\ evalLog' = st.evalLog
    /\ evals' = SubSeq(evals, 1, k - 1) \o st.evals \o SubSeq(evals, k + 1, Len(evals))

\* The promise of policy.action(...) awaited by evaluation k is fulfilled.
ActionResolves(k) ==
    /\ k \in 1..Len(evals)
    /\ LET e == evals[k]
           applied == Emit(emitted, Event("policy:applied", e.msg.seq, e.sorted[e.i]))
       IN  ResumeEval(evaluatePolicies([emitted |-> applied, evalLog |-> evalLog,
                                        evals |-> <<>>], e.msg, e.sorted, e.i + 1), k)
    /\ UNCHANGED <<closureVars, generatorVars, observer,
                   busVars, swarmVars, policies, enabled, enabledAt,
                   policyContext, registeredAt>>
    /\ reported' = <<>>

\* (a bug for C16: a failed action ends the evaluation of the message)
ActionRejectsAborts(k) ==
    /\ k \in 1..Len(evals)
    /\ emitted' = Emit(emitted, Event("policy:error", evals[k].msg.seq,
                                      evals[k].sorted[evals[k].i]))
    /\ evals' = SubSeq(evals, 1, k - 1) \o SubSeq(evals, k + 1, Len(evals))
    /\ UNCHANGED <<closureVars, generatorVars, observer,
                   busVars, swarmVars, policies, enabled, evalLog, enabledAt,
                   policyContext, registeredAt>>
    /\ reported' = <<>>

\* The promise of policy.action(...) awaited by evaluation k is rejected.
ActionRejects(k) ==
    /\ k \in 1..Len(evals)
    /\ LET e == evals[k]
           error == Emit(emitted, Event("policy:error", e.msg.seq, e.sorted[e.i]))
       IN  ResumeEval(evaluatePolicies([emitted |-> error, evalLog |-> evalLog,
                                        evals |-> <<>>], e.msg, e.sorted, e.i + 1), k)
    /\ UNCHANGED <<closureVars, generatorVars, observer,
                   busVars, swarmVars, policies, enabled, enabledAt,
                   policyContext, registeredAt>>
    /\ reported' = <<>>

----------------------------------------------------------------------------
(* MCPGenerator *)

SystemIds == {"s1"}
TwoSystemIds == {"s1", "s2"}

\* Map.prototype.get, set and delete for the generator's maps (<<>>: undefined)
get(map, key) == IF key \in DOMAIN map THEN <<map[key]>> ELSE <<>>
set(map, key, value) ==
    [k \in DOMAIN map \cup {key} |-> IF k = key THEN value ELSE map[k]]
delete(map, key) == [k \in DOMAIN map \ {key} |-> map[k]]

\* generator.getMCPSystem(systemId): the components held under the id
getSystem(id) ==
    [messageBus |-> get(messageBuses, id),
     swarmRunner |-> get(swarmRunners, id),
     policyEngine |-> get(policyEngines, id)]

\* generator.getAllSystems(): one entry per key of messageBuses (as a function of
\* the system id; the order of the entries is not modelled)
getAllSystems == [id \in DOMAIN messageBuses |-> getSystem(id)]

\* generator.getSystemStatus(systemId): throws unless the three maps hold a
\* component under the id; the report itself reads the three components and is
\* not modelled further.
getSystemStatus(id) ==
    IF \/ get(swarmRunners, id) = <<>>
       \/ get(policyEngines, id) = <<>>
       \/ get(messageBuses, id) = <<>>
    THEN <<"Error", "not found">>
    ELSE <<"status", id>>

\* The fields of a new MessageBus, SwarmRunner and PolicyEngine constructed by
\* call number n of createMCPSystem, the engine subscribed to the wildcard topic
\* of the bus; no history of them, no listener.
NewComponents(id, n) ==
    [swarmId |-> id, instance |-> n,
     messageQueue |-> <<>>,
     messageHistory |-> <<>>,
     subscribers |-> [t \in {Wildcard} |-> <<"pe">>],
     errorListener |-> FALSE,
     unsubs |-> {},
     fired |-> {},
     agents |-> <<>>,
     isRunning |-> FALSE,
     processInterval |-> FALSE,
     timers |-> 0,
     processedMessages |-> 0,
     failedMessages |-> 0,
     ticks |-> <<>>,
     policies |-> <<>>,
     enabled |-> [p \in PolicyIds |-> FALSE],
     evals |-> <<>>,
     policyContext |-> [agents |-> {}],
     nextSeq |-> 0,
     delivered |-> <<>>,
     emitted |-> EmptyBag,
     handed |-> <<>>,
     evalLog |-> <<>>,
     regRank |-> [a \in AgentIds |-> 0],
     threw |-> {},
     enabledAt |-> <<>>,
     registeredAt |-> <<>>,
     sent |-> <<>>,
     removed |-> {},
     lifecycle |-> <<>>,
     uncalled |-> [c \in Topics \X (Callbacks \ {"pe"}) |-> 0],
     called |-> {},
     held |-> <<>>,
     observer |-> FALSE]

\* The fields of the components the variables describe.
Current ==
    [swarmId |-> swarmId, instance |-> instance,
     messageQueue |-> messageQueue,
     messageHistory |-> messageHistory,
     subscribers |-> subscribers,
     errorListener |-> errorListener,
     unsubs |-> unsubs,
     fired |-> fired,
     agents |-> agents,
     isRunning |-> isRunning,
     processInterval |-> processInterval,
     timers |-> timers,
     processedMessages |-> processedMessages,
     failedMessages |-> failedMessages,
     ticks |-> ticks,
     policies |-> policies,
     enabled |-> enabled,
     evals |-> evals,
     policyContext |-> policyContext,
     nextSeq |-> nextSeq,
     delivered |-> delivered,
     emitted |-> emitted,
     handed |-> handed,
     evalLog |-> evalLog,
     regRank |-> regRank,
     threw |-> threw,
     enabledAt |-> enabledAt,
     registeredAt |-> registeredAt,
     sent |-> sent,
     removed |-> removed,
     lifecycle |-> lifecycle,
     uncalled |-> uncalled,
     called |-> called,
     held |-> held,
     observer |-> observer]

\* From this step on the variables describe the components with the fields r.
Load(r) ==
    /\ swarmId' = r.swarmId
    /\ instance' = r.instance
    /\ messageQueue' = r.messageQueue
    /\ messageHistory' = r.messageHistory
    /\ subscribers' = r.subscribers
    /\ errorListener' = r.errorListener
    /\ unsubs' = r.unsubs
    /\ fired' = r.fired
    /\ agents' = r.agents
    /\ isRunning' = r.isRunning
    /\ processInterval' = r.processInterval
    /\ timers' = r.timers
    /\ processedMessages' = r.processedMessages
    /\ failedMessages' = r.failedMessages
    /\ ticks' = r.ticks
    /\ policies' = r.policies
    /\ enabled' = r.enabled
    /\ evals' = r.evals
    /\ policyContext' = r.policyContext
    /\ nextSeq' = r.nextSeq
    /\ delivered' = r.delivered
    /\ emitted' = r.emitted
    /\ handed' = r.handed
    /\ evalLog' = r.evalLog
    /\ regRank' = r.regRank
    /\ threw' = r.threw
    /\ enabledAt' = r.enabledAt
    /\ registeredAt' = r.registeredAt
    /\ sent' = r.sent
    /\ removed' = r.removed
    /\ lifecycle' = r.lifecycle
    /\ uncalled' = r.uncalled
    /\ called' = r.called
    /\ held' = r.held
    /\ observer' = r.observer

componentVars == <<busVars, emitted, swarmVars, policyVars, closureVars, observer,
                   swarmId, instance>>

\* The number of the latest successful createMCPSystem call
latest == IF other = <<>> \/ other[1].instance < instance THEN instance
          ELSE other[1].instance

\* The caller turns to the other system it holds: the variables describe that one.
Switch ==
    /\ other # <<>>
    /\ Load(other[1])
    /\ other' = <<Current>>
    /\ reported' = <<>>
    /\ UNCHANGED <<messageBuses, swarmRunners, policyEngines>>

\* The new components of system id take the place of the components the caller
\* held under that id; the caller keeps those of one more system.
construct(id) ==
    IF id = swarmId
    THEN Load(NewComponents(id, latest + 1)) /\ UNCHANGED other
    ELSE other' = <<NewComponents(id, latest + 1)>> /\ UNCHANGED componentVars

\* (a bug for C29: no check, the maps are overwritten with new components)
CreateSystemOverwrites(id) ==
    /\ construct(id)
    /\ messageBuses' = set(messageBuses, id, latest + 1)
    /\ swarmRunners' = set(swarmRunners, id, latest + 1)
    /\ policyEngines' = set(policyEngines, id, latest + 1)
    /\ reported' = <<>>

\* generator.createMCPSystem(systemId): throws, changing nothing, if the id is
\* taken; otherwise constructs the three components and sets them in the maps.
CreateSystem(id) ==
    IF id \in DOMAIN messageBuses
    THEN /\ reported' = report(<<"Error", "system">>)
         /\ UNCHANGED <<componentVars, messageBuses, swarmRunners, policyEngines,
                        other>>
    ELSE /\ construct(id)
         /\ messageBuses' = set(messageBuses, id, latest + 1)
         /\ swarmRunners' = set(swarmRunners, id, latest + 1)
         /\ policyEngines' = set(policyEngines, id, latest + 1)
         /\ reported' = <<>>

\* What swarmRunner.stop() does to a coordinator with the fields r.
stopped(r) ==
    IF ~r.isRunning
    THEN [r EXCEPT !.lifecycle = <<>>]
    ELSE [r EXCEPT !.isRunning = FALSE,
                   !.processInterval = FALSE,
                   !.timers = IF r.processInterval THEN @ - 1 ELSE @,
                   !.lifecycle = <<"swarm:stopped">>]

\* (a bug for C39: the coordinator the caller is using is stopped, whatever the id)
stopRunnerInUse(n) ==
    /\ stop
    /\ UNCHANGED <<busVars, emitted, agents, processedMessages, failedMessages,
                   ticks, handed, regRank, removed, policyVars, closureVars,
                   observer, swarmId, instance, other>>

\* swarmRunner.stop() of the coordinator number n: the one the variables describe,
\* or the one of the other system the caller holds
stopRunner(n) ==
    IF n = instance
    THEN /\ stop
         /\ UNCHANGED <<busVars, emitted, agents, processedMessages, failedMessages,
                        ticks, handed, regRank, removed, policyVars, closureVars,
                        observer, swarmId, instance, other>>
    ELSE /\ other' = <<stopped(other[1])>>
         /\ UNCHANGED componentVars

\* (a bug for C31: the policy engine stays in its map)
DestroySystemKeepsEngine(id) ==
    /\ IF id \in DOMAIN swarmRunners
       THEN stopRunner(swarmRunners[id])
       ELSE UNCHANGED <<componentVars, other>>
    /\ messageBuses' = delete(messageBuses, id)
    /\ swarmRunners' = delete(swarmRunners, id)
    /\ UNCHANGED policyEngines
    /\ reported' = <<>>

\* (a bug for C30: the maps are cleared but the coordinator is not stopped)
DestroySystemNoStop(id) ==
    /\ messageBuses' = delete(messageBuses, id)
    /\ swarmRunners' = delete(swarmRunners, id)
    /\ policyEngines' = delete(policyEngines, id)
    /\ reported' = <<>>
    /\ UNCHANGED <<componentVars, other>>

\* generator.destroyMCPSystem(systemId): stops the coordinator held under the id,
\* if there is one, and deletes the id from the three maps.
DestroySystem(id) ==
    /\ IF id \in DOMAIN swarmRunners
       THEN stopRunner(swarmRunners[id])
       ELSE UNCHANGED <<componentVars, other>>
    /\ messageBuses' = delete(messageBuses, id)
    /\ swarmRunners' = delete(swarmRunners, id)
    /\ policyEngines' = delete(policyEngines, id)
    /\ reported' = <<>>

----------------------------------------------------------------------------
(* The system as createMCPSystem returns it *)

Init ==
    /\ messageQueue = <<>>
    /\ messageHistory = <<>>
    /\ subscribers = [t \in {Wildcard} |-> <<"pe">>]
    /\ errorListener = FALSE
    /\ unsubs = {}
    /\ fired = {}
    /\ agents = <<>>
    /\ isRunning = FALSE
    /\ processInterval = FALSE
    /\ processedMessages = 0
    /\ failedMessages = 0
    /\ ticks = <<>>
    /\ policies = <<>>
    /\ enabled = [p \in PolicyIds |-> FALSE]
    /\ evals = <<>>
    /\ nextSeq = 0
    /\ delivered = <<>>
    /\ emitted = EmptyBag
    /\ handed = <<>>
    /\ evalLog = <<>>
    /\ regRank = [a \in AgentIds |-> 0]
    /\ threw = {}
    /\ enabledAt = <<>>
    /\ registeredAt = <<>>
    /\ sent = <<>>
    /\ removed = {}
    /\ timers = 0
    /\ policyContext = [agents |-> {agents[i] : i \in 1..Len(agents)}]
    /\ lifecycle = <<>>
    /\ messageBuses = [id \in {"s1"} |-> 1]
    /\ swarmRunners = [id \in {"s1"} |-> 1]
    /\ policyEngines = [id \in {"s1"} |-> 1]
    /\ swarmId = "s1"
    /\ instance = 1
    /\ other = <<>>
    /\ uncalled = [c \in Topics \X (Callbacks \ {"pe"}) |-> 0]
    /\ called = {}
    /\ held = <<>>
    /\ observer = FALSE
    /\ reported = <<>>

\* Messages callers publish
BusMessages == {Message(t, Undefined) : t \in Types}
SwarmMessages ==
    {Message("doc", Undefined), Message("img", Undefined),
     Message("doc", ""), Message("img", "A1")}
PolicyMessages == {m \in BusMessages : m.type \in {"doc", Wildcard}}
DispatchMessages == {m \in SwarmMessages : m.recipient = Undefined}
UserCallbacks == Callbacks \ {"pe"}
IdentifiedMessages ==
    {[type |-> "doc", recipient |-> Undefined, id |-> i, timestamp |-> t, priority |-> p] :
        i \in {Undefined, "", "m1"}, t \in {Undefined, "0", "7"}, p \in {Undefined, "high"}}

\* publish calls made by callers so far (every fired callback made one more)
Published == nextSeq - Cardinality(fired)

\* The bus with its callers: subscribe, unsubscribe, publish, error listener.
NextBus ==
    \/ \E m \in BusMessages : Published < MaxPublishes /\ Publish(m)
    \/ \E t \in Topics, cb \in UserCallbacks : uncalled[<<t, cb>>] = 0 /\ Subscribe(t, cb)
    \/ \E t \in Topics, cb \in UserCallbacks : Unsubscribe(t, cb)
    \/ OnError

SpecBus == Init /\ [][NextBus]_vars

\* The policy engine with its callers, observing the bus.
NextPolicy ==
    \/ \E m \in PolicyMessages : Published < MaxObserved /\ Publish(m)
    \/ \E p \in PolicyIds, en \in BOOLEAN : RegisterPolicy(p, en)
    \/ \E p \in PolicyIds : UnregisterPolicy(p)
    \/ \E p \in PolicyIds : EnablePolicy(p)
    \/ \E p \in PolicyIds : DisablePolicy(p)
    \/ \E k \in 1..Len(evals) : ActionResolves(k)
    \/ \E k \in 1..Len(evals) : ActionRejects(k)

SpecPolicy == Init /\ [][NextPolicy]_vars

\* The coordinator with its callers and its timer.
NextSwarm ==
    \/ \E m \in SwarmMessages : Published < MaxPublishes /\ Publish(m)
    \/ \E a \in {"A1", "A2"} : RegisterAgent(a)
    \/ \E a \in {"A1", "A2"} : UnregisterAgent(a)
    \/ Start
    \/ Stop
    \/ Len(ticks) < MaxTicks /\ TimerFires
    \/ \E k \in 1..Len(ticks) : AgentResolves(k)
    \/ \E k \in 1..Len(ticks) : AgentRejects(k)

SpecSwarm == Init /\ [][NextSwarm]_vars

\* The coordinator routing messages without recipient by capability.
NextRouting ==
    \/ \E m \in DispatchMessages : Published < MaxRouted /\ Publish(m)
    \/ \E a \in {"A1", "A2"} : RegisterAgent(a)
    \/ \E a \in {"A1", "A2"} : UnregisterAgent(a)
    \/ Start
    \/ Stop
    \/ Len(ticks) < MaxOverlap /\ TimerFires
    \/ \E k \in 1..Len(ticks) : AgentResolves(k)
    \/ \E k \in 1..Len(ticks) : AgentRejects(k)

SpecRouting == Init /\ [][NextRouting]_vars

\* The coordinator routing messages that carry a recipient.
NextRecipient ==
    \/ \E m \in SwarmMessages \ DispatchMessages : Published < MaxRouted /\ Publish(m)
    \/ \E a \in AgentIds : RegisterAgent(a)
    \/ \E a \in AgentIds : UnregisterAgent(a)
    \/ Start
    \/ Stop
    \/ Len(ticks) < MaxOverlap /\ TimerFires
    \/ \E k \in 1..Len(ticks) : AgentResolves(k)
    \/ \E k \in 1..Len(ticks) : AgentRejects(k)

SpecRecipient == Init /\ [][NextRecipient]_vars

\* The coordinator with one agent whose operation fails or succeeds.
NextFailure ==
    \/ \E m \in DispatchMessages : Published < MaxPublishes /\ Publish(m)
    \/ \E a \in {"A1"} : RegisterAgent(a)
    \/ \E a \in {"A1"} : UnregisterAgent(a)
    \/ Start
    \/ Stop
    \/ Len(ticks) < MaxOverlap /\ TimerFires
    \/ \E k \in 1..Len(ticks) : AgentResolves(k)
    \/ \E k \in 1..Len(ticks) : AgentRejects(k)

SpecFailure == Init /\ [][NextFailure]_vars

\* The policy engine observing messages of one type, its policies registered
\* enabled, with predicates and actions that fail.
NextPolicyErrors ==
    \/ \E m \in {Message("doc", Undefined)} : Published < MaxObserved /\ Publish(m)
    \/ \E p \in PolicyIds : RegisterPolicy(p, TRUE)
    \/ \E p \in PolicyIds : UnregisterPolicy(p)
    \/ \E k \in 1..Len(evals) : ActionResolves(k)
    \/ \E k \in 1..Len(evals) : ActionRejects(k)

SpecPolicyErrors == Init /\ [][NextPolicyErrors]_vars

\* The same under the scheduling of the runtime: an active timer keeps firing, and
\* every agent operation awaited by a tick completes or fails.
Scheduling ==
    /\ WF_vars(Len(ticks) < MaxOverlap /\ TimerFires)
    /\ \A k \in 1..MaxOverlap : WF_vars(AgentResolves(k) \/ AgentRejects(k))

SpecScheduled == Init /\ [][NextFailure]_vars /\ Scheduling

\* The policy engine observing several messages while policy actions are pending.
NextEvaluations ==
    \/ \E m \in {Message("doc", Undefined)} : Published < MaxPublishes /\ Publish(m)
    \/ \E p \in {"p1", "p3"} : RegisterPolicy(p, TRUE)
    \/ \E p \in {"p1", "p3"} : DisablePolicy(p)
    \/ \E k \in 1..Len(evals) : ActionResolves(k)
    \/ \E k \in 1..Len(evals) : ActionRejects(k)

SpecEvaluations == Init /\ [][NextEvaluations]_vars

\* The policy engine and a caller's subscriber observing a message that the
\* coordinator dispatches, policies being registered before and after.
NextScreening ==
    \/ \E m \in {Message("doc", Undefined)} : Published < MaxObserved /\ Publish(m)
    \/ \E p \in {"p1", "p3"} : RegisterPolicy(p, TRUE)
    \/ uncalled[<<"doc", "c2">>] = 0 /\ Subscribe("doc", "c2")
    \/ OnError
    \/ RegisterAgent("A1")
    \/ Start
    \/ Len(ticks) < MaxOverlap /\ TimerFires
    \/ \E k \in 1..Len(ticks) : AgentResolves(k)
    \/ \E k \in 1..Len(evals) : ActionResolves(k)

SpecScreening == Init /\ [][NextScreening]_vars

\* The queue of the bus: callers publish, subscribe and unsubscribe, clear the
\* queue, take copies of it and change them, while the coordinator drains it.
NextQueue ==
    \/ \E m \in {Message("doc", Undefined)} : Published < MaxPublishes /\ Publish(m)
    \/ uncalled[<<"doc", "c1">>] = 0 /\ Subscribe("doc", "c1")
    \/ Unsubscribe("doc", "c1")
    \/ ClearQueue
    \/ GetQueue
    \/ ChangeHeld
    \/ RegisterAgent("A1")
    \/ Start
    \/ Len(ticks) < MaxOverlap /\ TimerFires
    \/ \E k \in 1..Len(ticks) : AgentResolves(k)

SpecQueue == Init /\ [][NextQueue]_vars

\* The bus filling its history while the coordinator drains the queue.
NextHistory ==
    \/ \E m \in DispatchMessages : Published < MaxStored /\ Publish(m)
    \/ uncalled[<<"doc", "c3">>] = 0 /\ Subscribe("doc", "c3")
    \/ RegisterAgent("A1")
    \/ Start
    \/ Len(ticks) < MaxOverlap /\ TimerFires
    \/ \E k \in 1..Len(ticks) : AgentResolves(k)

SpecHistory == Init /\ [][NextHistory]_vars

\* The bus given messages with and without identifier, timestamp and priority,
\* at varying clock values, and the coordinator dispatching them.
NextIdentity ==
    \/ \E m \in IdentifiedMessages, now \in Clock :
          Published < MaxPublishes /\ PublishWith(m, now, digitsAfter(nextSeq))
    \/ RegisterAgent("A1")
    \/ Start
    \/ Len(ticks) < MaxOverlap /\ TimerFires
    \/ \E k \in 1..Len(ticks) : AgentResolves(k)

SpecIdentity == Init /\ [][NextIdentity]_vars

\* The bus with callers that subscribe a callback more than once and call the
\* closures they got, also more than once.
NextUnsubscribe ==
    \/ \E t \in Topics, cb \in {"c1", "c3"} :
          uncalled[<<t, cb>>] < MaxRegistrations /\ Subscribe(t, cb)
    \/ \E t \in Topics, cb \in {"c1", "c3"} : Unsubscribe(t, cb)
    \/ \E m \in {Message("doc", Undefined)} : Published < MaxObserved /\ Publish(m)

SpecUnsubscribe == Init /\ [][NextUnsubscribe]_vars

\* The agent registry with an observing caller, and the coordinator dispatching.
NextAgents ==
    \/ Observe
    \/ \E m \in DispatchMessages : Published < MaxRouted /\ Publish(m)
    \/ \E a \in {"A1", "A2"} : RegisterAgent(a)
    \/ \E a \in {"A1", "A2"} : UnregisterAgent(a)
    \/ Start
    \/ Len(ticks) < MaxOverlap /\ TimerFires
    \/ \E k \in 1..Len(ticks) : AgentResolves(k)

SpecAgents == Init /\ [][NextAgents]_vars

\* One agent registered and unregistered by an observing caller while ticks are
\* in progress.
NextUnregister ==
    \/ Observe
    \/ \E m \in {Message("doc", Undefined)} : Published < MaxPublishes /\ Publish(m)
    \/ RegisterAgent("A1")
    \/ UnregisterAgent("A1")
    \/ Start
    \/ Len(ticks) < MaxOverlap /\ TimerFires
    \/ \E k \in 1..Len(ticks) : AgentResolves(k)

SpecUnregister == Init /\ [][NextUnregister]_vars

\* The policy registry with an observing caller.
NextPolicyRegistry ==
    \/ Observe
    \/ \E p \in PolicyIds, en \in BOOLEAN : RegisterPolicy(p, en)
    \/ \E p \in PolicyIds : UnregisterPolicy(p)
    \/ \E p \in PolicyIds : EnablePolicy(p)
    \/ \E p \in PolicyIds : DisablePolicy(p)

SpecPolicyRegistry == Init /\ [][NextPolicyRegistry]_vars

\* The generator creating and destroying the system under one id, while callers
\* use the components they were given.
NextGenerator ==
    \/ Observe
    \/ \E id \in SystemIds : instance < MaxCreates /\ CreateSystem(id)
    \/ \E id \in SystemIds : DestroySystem(id)
    \/ \E m \in {Message("doc", Undefined)} : Published < MaxRouted /\ Publish(m)
    \/ RegisterAgent("A1")
    \/ RegisterPolicy("p1", TRUE)
    \/ Start
    \/ Len(ticks) < MaxOverlap /\ TimerFires
    \/ \E k \in 1..Len(ticks) : AgentResolves(k)
    \/ \E k \in 1..Len(evals) : ActionResolves(k)

SpecGenerator == Init /\ [][NextGenerator]_vars

\* The generator creating and destroying systems under two ids, while a caller
\* uses the components of the two systems it holds.
NextFactory ==
    \/ \E id \in TwoSystemIds : latest < MaxSystems /\ CreateSystem(id)
    \/ \E id \in TwoSystemIds : DestroySystem(id)
    \/ Switch
    \/ \E m \in {Message("doc", Undefined)} : Published < MaxRouted /\ Publish(m)
    \/ RegisterAgent("A1")
    \/ Start

SpecFactory == Init /\ [][NextFactory]_vars

\* publish calls by callers, and ticks in progress, in the two systems together
publishedInAll ==
    Published + (IF other = <<>> THEN 0
                 ELSE other[1].nextSeq - Cardinality(other[1].fired))
ticksInAll == Len(ticks) + (IF other = <<>> THEN 0 ELSE Len(other[1].ticks))

\* Two systems of one generator used side by side by a caller: it publishes,
\* registers an agent, starts and stops in the one in use, whose bus notifies the
\* policy engine and whose coordinator dispatches, and turns to the other one.
NextIndependence ==
    \/ \E id \in TwoSystemIds : latest < MaxCreates /\ CreateSystem(id)
    \/ \E id \in TwoSystemIds : DestroySystem(id)
    \/ Switch
    \/ \E m \in {Message("doc", Undefined)} :
          publishedInAll < MaxRouted /\ Publish(m)
    \/ RegisterAgent("A1")
    \/ Start
    \/ Stop
    \/ ticksInAll < MaxOverlap /\ TimerFires
    \/ \E k \in 1..Len(ticks) : AgentResolves(k)

SpecIndependence == Init /\ [][NextIndependence]_vars

Next ==
    \/ NextIndependence
    \/ NextQueue
    \/ NextScreening
    \/ NextEvaluations
    \/ NextFactory
    \/ NextGenerator
    \/ NextAgents \/ NextUnregister \/ NextPolicyRegistry
    \/ NextUnsubscribe
    \/ NextIdentity
    \/ NextHistory
    \/ NextBus \/ NextPolicy \/ NextSwarm \/ NextRouting \/ NextRecipient \/ NextFailure
    \/ NextPolicyErrors

Spec == Init /\ [][Next]_vars

----------------------------------------------------------------------------
(* Message Bus: claims C2, C4, C5 (checked under SpecBus) *)

deliveries(cb, n) == Times(delivered, <<cb, n>>)
subscribersOf(topic) == IF topic \in DOMAIN subscribers THEN subscribers[topic] ELSE <<>>
inQueue(n) == \E i \in 1..Len(messageQueue) : messageQueue[i].seq = n
inHistory(n) == \E i \in 1..Len(messageHistory) : messageHistory[i].seq = n

\* C2: when a subscriber callback throws during a caller's publish, every
\* subscriber of the message's topic and of the wildcard topic is still invoked,
\* the message stays in the queue and the history, and publish returns normally,
\* with or without a listener on the bus's error event.
C2_SubscriberFailureIsolated ==
    [][\A m \in BusMessages :
         Publish(m) =>
            \A n \in {nextSeq + 1} :
                /\ n \notin threw'
                /\ \A cb \in Callbacks :
                      (Contains(subscribersOf(m.type), cb)
                          \/ Contains(subscribersOf(Wildcard), cb))
                      => deliveries(cb, n)' >= 1
                /\ inQueue(n)' /\ inHistory(n)']_vars

\* C4: a publish of a message of type T invokes a callback subscribed under T (and
\* under no other topic) exactly once, and does not invoke a callback that is
\* subscribed neither under T nor under the wildcard topic (never subscribed, or
\* unsubscribed again).
C4_SubscribedExactlyOnce ==
    [][\A m \in BusMessages :
         Publish(m) =>
            \A n \in {nextSeq + 1} :
                \A cb \in Callbacks :
                   /\ (/\ Contains(subscribersOf(m.type), cb)
                       /\ \A t \in DOMAIN subscribers \ {m.type} :
                             ~Contains(subscribers[t], cb))
                      => deliveries(cb, n)' = 1
                   /\ (/\ ~Contains(subscribersOf(m.type), cb)
                       /\ ~Contains(subscribersOf(Wildcard), cb))
                      => deliveries(cb, n)' = 0]_vars

\* C5: every subscriber is invoked for the messages it receives in the order in
\* which they were appended to the queue and the history.
C5_DeliveredInPublishOrder ==
    \A i, j \in 1..Len(delivered) :
       (i < j /\ delivered[i][1] = delivered[j][1]) => delivered[i][2] <= delivered[j][2]

----------------------------------------------------------------------------
(* Policy Engine: claim C3 (checked under SpecPolicy) *)

evaluations(p, n) == Times(evalLog, <<p, n>>)
evaluating(n) == \E k \in 1..Len(evals) : evals[k].msg.seq = n

\* C3: for every published message, each policy registered and enabled at publish
\* time has its predicate evaluated against the message exactly once: never twice,
\* and once as soon as no evaluation of the message is suspended at an action.
C3_EvaluatedExactlyOnce ==
    \A n \in 1..nextSeq : \A p \in enabledAt[n] :
       /\ evaluations(p, n) <= 1
       /\ ~evaluating(n) => evaluations(p, n) = 1

----------------------------------------------------------------------------
(* Swarm Coordinator: claims C1, C6, C8 (SpecSwarm), C7 (SpecRecipient),
   C9 (SpecRouting), C10 (SpecFailure) *)

handedTimes(n) == Cardinality({i \in 1..Len(handed) : handed[i][1] = n})
unrouted(n) == Count(emitted, Event("message:unrouted", n, ""))
failures(n) == Count(emitted, Event("message:failed", n, "error"))
registered(a) == Contains(agents, a)
capable(type) == {a \in AgentIds : registered(a) /\ type \in capabilities(a)}

\* C1: each published message is handed to an agent's process operation at most
\* once in total.
C1_HandedAtMostOnce == \A n \in 1..nextSeq : handedTimes(n) <= 1

\* C6: a message without recipient that no registered agent can handle gets one
\* unrouted notification and is never considered again by a later tick.
C6_UnroutedOnce ==
    \A n \in 1..nextSeq : sent[n].recipient = Undefined => unrouted(n) <= 1

\* C8: a message whose (non-empty) recipient names no registered agent gets the
\* unrouted notification exactly once, and no agent but the named one is ever
\* handed it.
C8_MissingRecipientUnroutedOnce ==
    \A n \in 1..nextSeq :
       Truthy(sent[n].recipient) =>
          /\ unrouted(n) <= 1
          /\ \A i \in 1..Len(handed) :
                handed[i][1] = n => handed[i][2] = sent[n].recipient

\* C7: whenever a tick handles a message whose recipient names a
\* registered agent, it hands the message to that agent, and it reports the
\* message unrouted only if the recipient is not registered.
C7_RecipientWins ==
    [][/\ \A i \in (Len(handed) + 1)..Len(handed') :
             \A r \in {sent'[handed'[i][1]].recipient} :
                (r # Undefined /\ registered(r)) => handed'[i][2] = r
       /\ \A n \in 1..nextSeq :
             (unrouted(n)' > unrouted(n) /\ sent[n].recipient # Undefined)
                => ~registered(sent[n].recipient)]_vars

\* C9: a message without recipient is handed to the agent whose latest
\* registration is the earliest among the registered agents that declare the
\* message's type, and is reported unrouted only if no registered agent declares it.
C9_EarliestRegisteredCapable ==
    [][/\ \A i \in (Len(handed) + 1)..Len(handed') :
             \A m \in {sent'[handed'[i][1]]} : \A a \in {handed'[i][2]} :
                m.recipient = Undefined =>
                   /\ a \in capable(m.type)
                   /\ \A b \in capable(m.type) : regRank[a] <= regRank[b]
       /\ \A n \in 1..nextSeq :
             (unrouted(n)' > unrouted(n) /\ sent[n].recipient = Undefined)
                => capable(sent[n].type) = {}]_vars

\* A doc message went to A2 while A1, unregistered and registered again after A2,
\* declares doc too.
C9_Witness ==
    /\ Len(sent) >= 1 /\ sent[1].type = "doc" /\ sent[1].recipient = Undefined
    /\ handed = << <<1, "A2">> >>
    /\ agents = <<"A2", "A1">>
    /\ "A1" \in removed /\ "A2" \notin removed

\* C10: when the operation awaited by a tick fails, the failed count grows by one,
\* one 'message failed' event is emitted for the message, the running flag and
\* the timer are left alone, and the loop goes on with the rest of the snapshot:
\* every later message is reported unrouted or handed to its agent, in order, and
\* the queue is cleared after the last one.
C10_FailureIsolated ==
    [][\A k \in 1..Len(ticks) :
         AgentRejects(k) =>
            \A t \in {ticks[k]} :
               /\ failedMessages' = failedMessages + 1
               /\ processedMessages' = processedMessages
               /\ failures(t.queue[t.i].seq)' = failures(t.queue[t.i].seq) + 1
               /\ isRunning' = isRunning
               /\ processInterval' = processInterval
               /\ \/ /\ Len(ticks') = Len(ticks)
                     /\ ticks'[k].queue = t.queue
                     /\ ticks'[k].i \in (t.i + 1)..Len(t.queue)
                     /\ \A j \in (t.i + 1)..(ticks'[k].i - 1) :
                           unrouted(t.queue[j].seq)' = unrouted(t.queue[j].seq) + 1
                     /\ handed' = Append(handed, <<t.queue[ticks'[k].i].seq,
                                                   ticks'[k].agent>>)
                  \/ /\ Len(ticks') = Len(ticks) - 1
                     /\ \A j \in (t.i + 1)..Len(t.queue) :
                           unrouted(t.queue[j].seq)' = unrouted(t.queue[j].seq) + 1
                     /\ handed' = handed
                     /\ messageQueue' = <<>>]_vars

\* The first message of a snapshot of two failed and the second one was handed to
\* its agent by the same tick, the coordinator still running.
C10_Witness ==
    /\ failedMessages = 1 /\ failures(1) = 1
    /\ Len(handed) = 2 /\ handed[1][1] = 1 /\ handed[2][1] = 2
    /\ Len(ticks) = 1 /\ Len(ticks[1].queue) = 2 /\ ticks[1].i = 2
    /\ isRunning /\ processInterval

----------------------------------------------------------------------------
(* Swarm Coordinator: claims C11, C12, C13, C14 (checked under SpecFailure) *)

RECURSIVE Total(_, _)
Total(F(_), n) == IF n = 0 THEN 0 ELSE F(n) + Total(F, n - 1)

processedBy(n, a) == Count(emitted, Event("message:processed", n, a))
processedEvents(n) == processedBy(n, "A1") + processedBy(n, "A2") + processedBy(n, "")
inFlight(n) ==
    Cardinality({k \in 1..Len(ticks) : ticks[k].queue[ticks[k].i].seq = n})

\* C11: every agent invocation ends in exactly one of a success, counted in
\* processed and reported by one 'message processed' event, or a failure, counted
\* in failed and reported by one 'message failed' event; an unrouted message
\* changes no count.  So processed + failed is the number of completed
\* invocations, no count ever decreases, and a success adds 1 to processed and
\* leaves failed alone.
C11_OneOutcomePerInvocation ==
    [][/\ processedMessages' >= processedMessages
       /\ failedMessages' >= failedMessages
       /\ processedMessages' + failedMessages' = Len(handed') - Len(ticks')
       /\ processedMessages' = Total(processedEvents, nextSeq)'
       /\ failedMessages' = Total(failures, nextSeq)'
       /\ \A n \in 1..nextSeq :
             handedTimes(n)' = processedEvents(n)' + failures(n)' + inFlight(n)'
       /\ \A k \in 1..Len(ticks) :
             AgentResolves(k) => /\ processedMessages' = processedMessages + 1
                                 /\ failedMessages' = failedMessages]_vars

\* One message was reported unrouted and the other one processed by its agent.
C11_Witness ==
    /\ nextSeq = 2 /\ ticks = <<>> /\ Len(handed) = 1
    /\ processedMessages = 1 /\ failedMessages = 0
    /\ \E n \in 1..2 : unrouted(n) = 1 /\ handedTimes(n) = 0

routable(message) == recipientOf(message, agents) # Undefined

\* C12: the snapshot of a tick is in publish order; a tick invokes agents for the
\* routable messages of its snapshot in that order, skipping only messages that
\* are not routable; and an invocation begins only when the tick begins or when
\* the previous invocation of the same tick has completed or failed, one at a time.
C12_SequentialInSnapshotOrder ==
    [][/\ Len(handed') <= Len(handed) + 1
       /\ \A k \in 1..Len(ticks') : \A i, j \in 1..Len(ticks'[k].queue) :
             i < j => ticks'[k].queue[i].seq < ticks'[k].queue[j].seq
       /\ \A k \in 1..Len(ticks) :
             (AgentResolves(k) \/ AgentRejects(k)) =>
                \A t \in {ticks[k]} :
                   \/ /\ Len(ticks') = Len(ticks)
                      /\ ticks'[k].queue = t.queue
                      /\ ticks'[k].i > t.i
                      /\ handed' = Append(handed, <<t.queue[ticks'[k].i].seq,
                                                    ticks'[k].agent>>)
                      /\ \A j \in (t.i + 1)..(ticks'[k].i - 1) : ~routable(t.queue[j])
                   \/ /\ Len(ticks') = Len(ticks) - 1
                      /\ handed' = handed
                      /\ \A j \in (t.i + 1)..Len(t.queue) : ~routable(t.queue[j])
       /\ Len(ticks') = Len(ticks) + 1 =>
             \A t \in {ticks'[Len(ticks')]} :
                /\ t.queue = messageQueue
                /\ handed' = Append(handed, <<t.queue[t.i].seq, t.agent>>)
                /\ \A j \in 1..(t.i - 1) : ~routable(t.queue[j])
       /\ handed' # handed =>
             \/ Len(ticks') = Len(ticks) + 1
             \/ \E k \in 1..Len(ticks) : AgentResolves(k) \/ AgentRejects(k)]_vars

\* A tick over a snapshot of two messages had its first invocation succeed and
\* then began the second one.
C12_Witness ==
    /\ Len(ticks) = 1 /\ Len(ticks[1].queue) = 2 /\ ticks[1].i = 2
    /\ handed = << <<1, "A1">>, <<2, "A1">> >>
    /\ processedMessages = 1 /\ failedMessages = 0

\* C13: while the coordinator is stopped no timer is active and no tick begins;
\* stop() leaves the ticks in progress, the queue and the invocations alone; and
\* when the operation awaited by a tick completes or fails while the coordinator
\* is stopped, the outcome is counted, the tick goes on with the rest of its
\* snapshot and clears the queue after the last message.
C13_StopHaltsFutureTicksOnly ==
    [][/\ ~isRunning' => timers' = 0
       /\ ~isRunning =>
             /\ Len(ticks') <= Len(ticks)
             /\ ticks = <<>> =>
                   /\ handed' = handed
                   /\ \A n \in 1..nextSeq : unrouted(n)' = unrouted(n)
                   /\ Len(messageQueue') >= Len(messageQueue)
       /\ (isRunning /\ ~isRunning') =>
             /\ ticks' = ticks /\ handed' = handed /\ messageQueue' = messageQueue
             /\ emitted' = emitted
       /\ \A k \in 1..Len(ticks) :
             (~isRunning /\ (AgentResolves(k) \/ AgentRejects(k))) =>
                \A t \in {ticks[k]} :
                   /\ processedMessages' + failedMessages'
                         = processedMessages + failedMessages + 1
                   /\ \/ /\ Len(ticks') = Len(ticks)
                         /\ ticks'[k].queue = t.queue
                         /\ \A next \in {ticks'[k].i} :
                               /\ next > t.i
                               /\ handedTimes(t.queue[next].seq)'
                                     = handedTimes(t.queue[next].seq) + 1
                               /\ \A j \in (t.i + 1)..(next - 1) :
                                     unrouted(t.queue[j].seq)'
                                        = unrouted(t.queue[j].seq) + 1
                      \/ /\ Len(ticks') = Len(ticks) - 1
                         /\ \A j \in (t.i + 1)..Len(t.queue) :
                               unrouted(t.queue[j].seq)' = unrouted(t.queue[j].seq) + 1
                         /\ messageQueue' = <<>>]_vars

\* stop() was called while a tick was awaiting the agent for the first of the two
\* messages of its snapshot, and the tick is still in progress.
C13_Witness ==
    /\ ~isRunning /\ lifecycle = <<"swarm:stopped">>
    /\ Len(ticks) = 1 /\ Len(ticks[1].queue) = 2 /\ ticks[1].i = 1

\* C14: the coordinator has at most one active timer, one exactly when it reports
\* running, and its handle is set exactly then; a call that does not change the
\* running flag (start() while running, stop() while stopped) changes no timer and
\* emits no notification; start() of a stopped coordinator, also after a stop(),
\* sets the timer and emits 'swarm:started', and stop() of a running one clears it
\* and emits 'swarm:stopped'.
C14_OneTimerIffRunning ==
    [][/\ timers' \in {0, 1}
       /\ timers' = 1 <=> isRunning'
       /\ processInterval' <=> isRunning'
       /\ isRunning' = isRunning =>
             /\ timers' = timers
             /\ lifecycle' \in {lifecycle, <<>>}
       /\ (isRunning /\ Start) => (isRunning' /\ lifecycle' = <<>>)
       /\ (~isRunning /\ Stop) => (~isRunning' /\ lifecycle' = <<>>)
       /\ (~isRunning /\ Start) =>
             (isRunning' /\ timers' = 1 /\ lifecycle' = <<"swarm:started">>)
       /\ (isRunning /\ Stop) =>
             (~isRunning' /\ timers' = 0 /\ lifecycle' = <<"swarm:stopped">>)]_vars

\* start() was called while the coordinator was running: it emitted nothing and
\* there is still one timer.
C14_Witness == isRunning /\ lifecycle = <<>> /\ timers = 1 /\ processInterval

----------------------------------------------------------------------------
(* Policy Engine: claims C15 (SpecPolicy), C16 (SpecPolicyErrors) *)

\* policy p comes before policy q for message n: higher priority, or the same
\* priority and registered earlier (as the registry was when n was published)
before(n, p, q) ==
    \/ priority(p) > priority(q)
    \/ /\ priority(p) = priority(q)
       /\ IndexOf(registeredAt[n], p) < IndexOf(registeredAt[n], q)

pendingAction(k) == evals[k].sorted[evals[k].i]

\* C15: for each message, the predicates are evaluated in descending priority and,
\* for equal priority, in registration order; and while the action of a policy is
\* pending for a message, no policy that comes after it has had its predicate
\* evaluated for that message.
C15_DescendingPriorityOneAtATime ==
    /\ \A i, j \in 1..Len(evalLog) :
          (i < j /\ evalLog[i][2] = evalLog[j][2] /\ evalLog[i][1] # evalLog[j][1])
             => before(evalLog[i][2], evalLog[i][1], evalLog[j][1])
    /\ \A k \in 1..Len(evals) : \A i \in 1..Len(evalLog) :
          evalLog[i][2] = evals[k].msg.seq =>
             \/ evalLog[i][1] = pendingAction(k)
             \/ before(evalLog[i][2], evalLog[i][1], pendingAction(k))

errors(p, n) == Count(emitted, Event("policy:error", n, p))

\* C16: a policy whose predicate throws gets one 'policy:error' event for each
\* evaluation, a policy whose action fails gets one more 'policy:error' event for
\* the message, in both cases the next policy of the message is evaluated, and
\* once no action is pending for a message every policy that was enabled when it
\* was published has been evaluated against it.
C16_PolicyFailureIsolated ==
    [][/\ \A n \in 1..nextSeq' : \A p \in enabledAt'[n] :
             /\ ~evaluating(n)' => evaluations(p, n)' >= 1
             /\ condition(p, sent'[n]) = "throw" => errors(p, n)' = evaluations(p, n)'
       /\ \A k \in 1..Len(evals) :
             ActionRejects(k) =>
                \A e \in {evals[k]} : \A q \in {pendingAction(k)} :
                   /\ errors(q, e.msg.seq)' = errors(q, e.msg.seq) + 1
                   /\ e.i < Len(e.sorted) =>
                         evaluations(e.sorted[e.i + 1], e.msg.seq)'
                            = evaluations(e.sorted[e.i + 1], e.msg.seq) + 1]_vars

\* For one message the action of p1 failed, the predicate of p2 threw, and p3, of
\* lower priority, was evaluated all the same.
C16_Witness ==
    /\ nextSeq = 1 /\ enabledAt[1] = {"p1", "p2", "p3"}
    /\ errors("p1", 1) = 1 /\ errors("p2", 1) = 1
    /\ evaluations("p3", 1) = 1

----------------------------------------------------------------------------
(* Policy context: claim C17 (checked under SpecRouting) *)

\* PolicyEngine.getStatus()
getStatus ==
    [policyCount |-> Len(policies),
     enabledPolicies |-> Cardinality({i \in 1..Len(policies) : enabled[policies[i]]}),
     context |-> [agentCount |-> Cardinality(policyContext.agents)]]

\* C17: the agents of the policy context are the agents registered with the
\* coordinator, and getStatus reports their number.
C17_ContextIsLiveRegistry ==
    /\ policyContext.agents = {a \in AgentIds : registered(a)}
    /\ getStatus.context.agentCount = Len(agents)

----------------------------------------------------------------------------
(* Message history: claim C18 (checked under SpecHistory) *)

Min(a, b) == IF a <= b THEN a ELSE b

\* C18: the history never holds more than maxHistorySize messages, it is the most
\* recent min(n, maxHistorySize) of the n messages published, in publish order,
\* and only a publish changes it: a tick that drains or clears the queue does not.
C18_HistoryIsMostRecent ==
    [][/\ Len(messageHistory') <= maxHistorySize
       /\ messageHistory' = SubSeq(sent', nextSeq' - Min(nextSeq', maxHistorySize) + 1,
                                  nextSeq')
       /\ nextSeq' = nextSeq => messageHistory' = messageHistory
       /\ Len(messageQueue') < Len(messageQueue) => messageHistory' = messageHistory]_vars

\* Three messages were published, the first one is gone from the history, and a
\* tick has cleared the queue since.
C18_Witness ==
    /\ nextSeq = maxHistorySize + 1 /\ Len(messageHistory) = maxHistorySize
    /\ messageHistory[1].seq = 2 /\ ~inHistory(1)
    /\ messageQueue = <<>> /\ processedMessages >= 1

----------------------------------------------------------------------------
(* Message identity: claims C19, C20 (checked under SpecIdentity) *)

\* C19: the message publish stores has a non-empty identifier, a timestamp and a
\* priority ('normal' if none was given); a non-empty identifier, a timestamp and a
\* priority given by the caller are kept; type and recipient are as given; the
\* queue and the history hold that message, and the snapshot of every tick holds
\* the messages as published.
C19_EnrichedAndPreserved ==
    [][/\ \A m \in IdentifiedMessages, now \in Clock :
             PublishWith(m, now, digitsAfter(nextSeq)) =>
                \A stored \in {sent'[nextSeq + 1]} :
                   /\ stored.id # Undefined /\ stored.id # ""
                   /\ stored.timestamp # Undefined
                   /\ stored.priority # Undefined
                   /\ m.priority = Undefined => stored.priority = "normal"
                   /\ Truthy(m.id) => stored.id = m.id
                   /\ m.timestamp # Undefined => stored.timestamp = m.timestamp
                   /\ m.priority # Undefined => stored.priority = m.priority
                   /\ stored.type = m.type /\ stored.recipient = m.recipient
                   /\ messageQueue'[Len(messageQueue) + 1] = stored
                   /\ \E i \in 1..Len(messageHistory') : messageHistory'[i] = stored
       /\ \A k \in 1..Len(ticks') : \A i \in 1..Len(ticks'[k].queue) :
             ticks'[k].queue[i] = sent'[ticks'[k].queue[i].seq]]_vars

retained ==
    {messageQueue[i] : i \in 1..Len(messageQueue)}
       \cup {messageHistory[i] : i \in 1..Len(messageHistory)}

\* C20: no two distinct messages retained in the queue or the history carry the
\* same identifier.
C20_IdentifiersUnique ==
    \A a, b \in retained : a.seq # b.seq => a.id # b.id

----------------------------------------------------------------------------
(* Message Bus: claims C21, C22 (checked under SpecBus) *)

\* The callbacks invoked for message n, in the order of their invocations.
RECURSIVE invocations(_, _)
invocations(log, n) ==
    IF log = <<>> THEN <<>>
    ELSE IF Head(log)[2] = n THEN <<Head(log)[1]>> \o invocations(Tail(log), n)
    ELSE invocations(Tail(log), n)

\* C21: a publish invokes, for its message, the subscribers of the message's type
\* in the order they subscribed and then the subscribers of the wildcard topic in
\* the order they subscribed, and all of them before it returns (normally).
C21_ExactThenWildcardInOrder ==
    [][\A m \in BusMessages :
         Publish(m) =>
            \A n \in {nextSeq + 1} :
               /\ n \notin threw'
               /\ invocations(delivered', n)
                     = subscribersOf(m.type) \o subscribersOf(Wildcard)]_vars

\* C22: a publish invokes every callback subscribed under the wildcard topic for
\* its message, whatever the type of the message and whoever is subscribed under
\* that type.
C22_WildcardReceivesEveryMessage ==
    [][\A m \in BusMessages :
         Publish(m) =>
            \A n \in {nextSeq + 1} : \A cb \in Callbacks :
               Contains(subscribersOf(Wildcard), cb) => deliveries(cb, n)' >= 1]_vars

----------------------------------------------------------------------------
(* Message history: claim C24 (checked under SpecHistory) *)

\* Array.prototype.slice(-count): the last count elements, all of them if there
\* are fewer.
sliceLast(array, count) ==
    SubSeq(array, (IF Len(array) > count THEN Len(array) - count ELSE 0) + 1, Len(array))

\* bus.getHistory(limit): limit is <<>> when the argument is omitted and <<n>> when
\* it is the number n; the call returns a new array and assigns nothing.
getHistory(limit) ==
    IF limit # <<>> /\ limit[1] # 0
    THEN sliceLast(messageHistory, limit[1])
    ELSE messageHistory

Limits == 0..(maxHistorySize + 1)

\* C24: getHistory(limit) returns the last min(limit, size) messages of the
\* history, in publish order, for every limit 0, 1, 2, ..., and getHistory()
\* returns the whole history.
C24_LastLimitRetained ==
    /\ \A limit \in Limits :
          getHistory(<<limit>>)
             = SubSeq(messageHistory,
                      Len(messageHistory) - Min(limit, Len(messageHistory)) + 1,
                      Len(messageHistory))
    /\ getHistory(<<>>) = messageHistory

----------------------------------------------------------------------------
(* Coordinator metrics: claim C25 (checked under SpecFailure) *)

\* Numbers that need not be integers are kept as fractions num / den, den > 0.
divide(a, b) == [num |-> a, den |-> b]
times(r, k) == [num |-> r.num * k, den |-> r.den]
same(r, s) == r.num * s.den = s.num * r.den
atMost(r, s) == r.num * s.den <= s.num * r.den

\* (a bug for C25: the success rate as a fraction of 1, not multiplied by 100)
getMetricsFraction ==
    [isRunning |-> isRunning,
     agentCount |-> Len(agents),
     processedMessages |-> processedMessages,
     failedMessages |-> failedMessages,
     successRate |-> IF processedMessages > 0
                     THEN divide(processedMessages, processedMessages + failedMessages)
                     ELSE divide(0, 1)]

\* swarmRunner.getMetrics(): it assigns nothing.  (Latency and uptime are left out.)
getMetrics ==
    [isRunning |-> isRunning,
     agentCount |-> Len(agents),
     processedMessages |-> processedMessages,
     failedMessages |-> failedMessages,
     successRate |-> IF processedMessages > 0
                     THEN times(divide(processedMessages,
                                       processedMessages + failedMessages), 100)
                     ELSE divide(0, 1)]

\* C25 as stated: the success rate getMetrics reports is
\* processed / (processed + failed), and 0 when no message has been processed.
C25_SuccessRateIsRatio ==
    /\ processedMessages > 0 =>
          same(getMetrics.successRate,
               divide(processedMessages, processedMessages + failedMessages))
    /\ processedMessages = 0 => same(getMetrics.successRate, divide(0, 1))

\* C25 as amended: the success rate getMetrics reports is the percentage
\* 100 * processed / (processed + failed), between 0 and 100, 100 exactly when a
\* message has been processed and none has failed, and 0 when no message has been
\* processed; the counts it reports are the coordinator's.
C25_SuccessRateIsPercentage ==
    /\ processedMessages > 0 =>
          same(getMetrics.successRate,
               divide(100 * processedMessages, processedMessages + failedMessages))
    /\ processedMessages = 0 => same(getMetrics.successRate, divide(0, 1))
    /\ atMost(divide(0, 1), getMetrics.successRate)
    /\ atMost(getMetrics.successRate, divide(100, 1))
    /\ same(getMetrics.successRate, divide(100, 1))
          <=> (processedMessages > 0 /\ failedMessages = 0)
    /\ getMetrics.processedMessages = processedMessages
    /\ getMetrics.failedMessages = failedMessages

\* One message was processed and one failed: the success rate reported is 50.
C25_Witness ==
    /\ processedMessages = 1 /\ failedMessages = 1
    /\ same(getMetrics.successRate, divide(50, 1))

----------------------------------------------------------------------------
(* Subscriptions: claim C23 (checked under SpecUnsubscribe) *)

subscribed(t, cb) == Contains(subscribersOf(t), cb)

\* C23: calling a closure returned by subscribe(T, cb) leaves every other callback
\* under T and cb under every other topic subscribed; it leaves cb subscribed under
\* T as long as another subscribe(T, cb) call has a closure that was not called;
\* calling a closure that was called before changes nothing; and a callback with a
\* registration that was not unsubscribed is invoked by a publish of its topic.
C23_RemovesExactlyItsRegistration ==
    [][/\ \A t \in Topics, cb \in UserCallbacks :
             Unsubscribe(t, cb) =>
                /\ \A t2 \in Topics, cb2 \in UserCallbacks :
                      <<t2, cb2>> # <<t, cb>> => (subscribed(t2, cb2)' <=> subscribed(t2, cb2))
                /\ uncalled'[<<t, cb>>] > 0 => subscribed(t, cb)'
                /\ uncalled' = uncalled => subscribers' = subscribers
                /\ uncalled'[<<t, cb>>] = 0 => ~subscribed(t, cb)'
       /\ \A m \in BusMessages :
             Publish(m) =>
                \A n \in {nextSeq + 1} : \A cb \in UserCallbacks :
                   (m.type \in Topics /\ uncalled[<<m.type, cb>>] > 0)
                      => deliveries(cb, n)' >= 1]_vars

----------------------------------------------------------------------------
(* Registries: claims C26 (SpecAgents), C27 (SpecUnregister),
   C28 (SpecPolicyRegistry) *)

\* C26: registerAgent with an id that is registered throws, emits no registration
\* event and changes nothing: the registry, the order of registration, the ticks in
\* progress and everything else stay as they were, so that the agent registered
\* first goes on being chosen for dispatch; with an id that is not registered, it
\* registers the agent last and emits the registration event.
C26_DuplicateAgentRejected ==
    [][\A a \in AgentIds :
         RegisterAgent(a) =>
            IF registered(a)
            THEN /\ observer => reported' = <<"Error", "agent">>
                 /\ agents' = agents /\ regRank' = regRank
                 /\ UNCHANGED <<busVars, emitted, swarmVars, policyVars>>
                 /\ \A m \in DispatchMessages :
                       recipientOf(m, agents') = recipientOf(m, agents)
            ELSE /\ observer => reported' = <<"agent:registered">>
                 /\ agents' = Append(agents, a)]_vars

\* A1 and A2 are registered in this order, and the observer's latest call,
\* registerAgent for one of them, threw.
C26_Witness ==
    /\ observer /\ reported = <<"Error", "agent">>
    /\ agents = <<"A1", "A2">>

\* C27: unregisterAgent with an id that is not registered changes nothing and
\* throws nothing; with a registered id it removes the agent and leaves the ticks
\* in progress alone; no invocation of an agent begins while it is not registered,
\* not even for the later messages of a tick in progress; and registerAgent with
\* the id of an unregistered agent succeeds.
C27_UnregisteredNeverInvoked ==
    [][/\ \A a \in AgentIds :
             UnregisterAgent(a) =>
                IF registered(a)
                THEN /\ ~registered(a)'
                     /\ observer => reported' = <<"agent:unregistered">>
                     /\ ticks' = ticks /\ handed' = handed
                ELSE /\ reported' = <<>>
                     /\ UNCHANGED <<busVars, emitted, swarmVars, policyVars>>
       /\ \A i \in (Len(handed) + 1)..Len(handed') : registered(handed'[i][2])
       /\ \A a \in AgentIds :
             (a \in removed /\ ~registered(a) /\ RegisterAgent(a)) =>
                /\ registered(a)'
                /\ observer => reported' = <<"agent:registered">>]_vars

\* A1 was unregistered while a tick was awaiting it for the first of two messages:
\* the tick went on, and reported the second message unrouted.
C27_Witness ==
    /\ "A1" \in removed /\ ~registered("A1")
    /\ handed = << <<1, "A1">> >> /\ processedMessages = 1
    /\ unrouted(2) = 1 /\ ticks = <<>>

\* C28: registerPolicy with an id that is registered throws, emits nothing and
\* leaves the registry as it was, with the first policy, its flag and its place;
\* unregisterPolicy, enablePolicy and disablePolicy with an id that is not
\* registered change nothing, throw nothing and emit nothing.
C28_PolicyRegistryGuards ==
    [][/\ \A p \in PolicyIds, en \in BOOLEAN :
             (Contains(policies, p) /\ RegisterPolicy(p, en)) =>
                /\ observer => reported' = <<"Error", "policy">>
                /\ policies' = policies /\ enabled' = enabled
       /\ \A p \in PolicyIds :
             (/\ ~Contains(policies, p)
              /\ UnregisterPolicy(p) \/ EnablePolicy(p) \/ DisablePolicy(p)) =>
                /\ reported' = <<>>
                /\ policies' = policies /\ enabled' = enabled]_vars

\* Two policies are registered, the first one disabled, and the observer's latest
\* call, registerPolicy for one of them, threw.
C28_Witness ==
    /\ observer /\ reported = <<"Error", "policy">>
    /\ Len(policies) = 2 /\ ~enabled[policies[1]] /\ enabled[policies[2]]

----------------------------------------------------------------------------
(* Generator: claims C29, C30 (checked under SpecGenerator) *)

\* The three components call number n of createMCPSystem constructed, as
\* getSystem returns them (<<>>: every field undefined).
Components(n) == [messageBus |-> n, swarmRunner |-> n, policyEngine |-> n]

\* C29: createSystem with an id that exists throws and changes nothing: getSystem
\* returns the same components, and their agents, policies, queue, history, running
\* state and everything else are as before.
C29_ExistingSystemUntouched ==
    [][\A id \in SystemIds :
         (id \in DOMAIN messageBuses /\ CreateSystem(id)) =>
            /\ observer => reported' = <<"Error", "system">>
            /\ getSystem(id)' = getSystem(id)
            /\ getSystem(id)' # Components(<<>>)
            /\ UNCHANGED <<busVars, emitted, swarmVars, policyVars>>]_vars

\* The system has an agent, a policy, a message in its history and a running
\* coordinator, and the observer's latest call, createSystem with its id, threw.
C29_Witness ==
    /\ observer /\ reported = <<"Error", "system">>
    /\ getSystem("s1") = Components(<<1>>)
    /\ agents = <<"A1">> /\ policies = <<"p1">> /\ Len(messageHistory) = 1
    /\ isRunning

\* C30: destroySystem with an id that exists leaves the coordinator stopped,
\* without timer, and removes the id, so that getSystem returns no component; no
\* tick begins while there is no timer; createSystem with an id that does not
\* exist gives new components, with an empty queue, history, agent registry and
\* policy registry and a stopped coordinator; and destroySystem with an id that
\* does not exist changes nothing and throws nothing.
C30_DestroyedStoppedAndRemoved ==
    [][/\ \A id \in SystemIds :
             DestroySystem(id) =>
                IF id \in DOMAIN messageBuses
                THEN /\ ~isRunning' /\ timers' = 0 /\ ~processInterval'
                     /\ id \notin DOMAIN messageBuses'
                     /\ getSystem(id)' = Components(<<>>)
                     /\ reported' = <<>>
                ELSE /\ reported' = <<>>
                     /\ UNCHANGED <<busVars, emitted, swarmVars, policyVars,
                                    generatorVars>>
       /\ timers = 0 => Len(ticks') <= Len(ticks)
       /\ \A id \in SystemIds :
             (id \notin DOMAIN messageBuses /\ CreateSystem(id)) =>
                /\ id \in DOMAIN messageBuses'
                /\ getSystem(id)' = Components(<<instance + 1>>)
                /\ messageQueue' = <<>> /\ messageHistory' = <<>>
                /\ agents' = <<>> /\ policies' = <<>>
                /\ ~isRunning' /\ timers' = 0 /\ ticks' = <<>>]_vars

\* The system was destroyed while its coordinator was running and a tick was in
\* progress: the coordinator is stopped, the tick still awaits its agent.
C30_Witness ==
    /\ getSystem("s1") = Components(<<>>)
    /\ ~isRunning /\ timers = 0 /\ lifecycle = <<"swarm:stopped">>
    /\ agents = <<"A1">> /\ Len(ticks) = 1

----------------------------------------------------------------------------
(* Generator: claim C31 (checked under SpecFactory) *)

\* C31: every system id maps to the three components one createSystem call
\* constructed or to none; getSystemStatus fails with not-found exactly when the
\* id is absent; getAllSystems lists exactly the ids getSystem returns components
\* for; a successful createSystem(id) makes getSystem(id) return the triple it
\* constructed, destroySystem(id) makes it return none, and no other step changes
\* what getSystem and getAllSystems return.
C31_AllThreeOrNone ==
    [][\A id \in TwoSystemIds :
         /\ getSystem(id) \in {Components(<<>>)} \cup {Components(<<n>>) : n \in 1..latest}
         /\ getSystemStatus(id) = <<"Error", "not found">>
               <=> getSystem(id) = Components(<<>>)
         /\ id \in DOMAIN getAllSystems <=> getSystem(id) # Components(<<>>)
         /\ id \in DOMAIN getAllSystems => getAllSystems[id] = getSystem(id)
         /\ (id \notin DOMAIN messageBuses /\ CreateSystem(id))
               => getSystem(id)' = Components(<<latest + 1>>)
         /\ DestroySystem(id) => getSystem(id)' = Components(<<>>)
         /\ getSystem(id)' # getSystem(id)
               => \/ id \notin DOMAIN messageBuses /\ CreateSystem(id)
                  \/ DestroySystem(id)]_vars

\* The first system was destroyed and two more were created, one under each id; the
\* status of the one the caller destroyed last is not found.
C31_Witness ==
    /\ getSystem("s1") = Components(<<3>>)
    /\ getSystem("s2") = Components(<<>>)
    /\ getSystemStatus("s2") = <<"Error", "not found">>
    /\ getSystemStatus("s1") = <<"status", "s1">>
    /\ DOMAIN getAllSystems = {"s1"}
    /\ other # <<>> /\ other[1].swarmId = "s2" /\ other[1].instance = 2

----------------------------------------------------------------------------
(* Queue and ticks: claim C32 (SpecFailure) *)

\* C32: every message a step removes from the pending queue was in the snapshot of
\* the tick that removes it: the tick took its snapshot in that very step, or it is
\* a tick in progress whose snapshot holds the message.
C32_RemovedWasInSnapshot ==
    [][\A i \in 1..Len(messageQueue) :
         \A n \in {messageQueue[i].seq} :
            ~inQueue(n)' =>
               \/ TimerFires /\ Len(ticks') = Len(ticks)
               \/ \E k \in 1..Len(ticks) :
                     /\ AgentResolves(k) \/ AgentRejects(k)
                     /\ \E j \in 1..Len(ticks[k].queue) : ticks[k].queue[j].seq = n]_vars

----------------------------------------------------------------------------
(* Ticks: claim C33 (SpecSwarm) *)

\* C33: at most one tick of the coordinator is in progress at any time, so at most
\* one agent operation started by the coordinator is awaited at any time.
C33_OneTickAtATime == Len(ticks) <= 1

----------------------------------------------------------------------------
(* Liveness: claim C34 (SpecScheduled) *)

\* Message n is in the queue, without recipient and of a type agent a can handle.
queuedFor(n, a) ==
    \E i \in 1..Len(messageQueue) :
       /\ messageQueue[i].seq = n
       /\ ~Truthy(messageQueue[i].recipient)
       /\ messageQueue[i].type \in capabilities(a)

\* C34: a published message in the queue whose type is a capability of an agent
\* that stays registered, the coordinator staying running, is eventually handed
\* to an agent.
C34_EventuallyHanded ==
    \A n \in 1..MaxPublishes :
       []((queuedFor(n, "A1") /\ [](isRunning /\ registered("A1")))
          => <>(handedTimes(n) >= 1))

----------------------------------------------------------------------------
(* Policies disabled or unregistered during an evaluation: claim C35 (SpecPolicy) *)

\* C35: a policy whose predicate is evaluated in a step is registered and enabled
\* when the step begins: after disablePolicy or unregisterPolicy has returned, its
\* predicate (and with it its action) is not invoked until it is enabled or
\* registered again, also for a message whose evaluation had already started.
C35_DisabledNotInvoked ==
    [][\A j \in (Len(evalLog) + 1)..Len(evalLog') :
         \A p \in {evalLog'[j][1]} : Contains(policies, p) /\ enabled[p]]_vars

----------------------------------------------------------------------------
(* Evaluation of successive messages: claim C36 (SpecEvaluations) *)

\* C36: the policy predicates (and the actions that follow them) run message by
\* message: none for an earlier message runs after one for a later message.
C36_MessageByMessage ==
    \A i, j \in 1..Len(evalLog) : i < j => evalLog[i][2] <= evalLog[j][2]

----------------------------------------------------------------------------
(* Policies and the time of publish: claim C37 (SpecScreening) *)

\* C37: a policy is evaluated against a message only if it was registered when
\* the message was published, dispatched or not; and every policy registered and
\* enabled when a message is published is evaluated against it by the evaluation
\* that publish starts, whether or not the message is dispatched.
C37_EvaluatedAtPublish ==
    \A n \in 1..nextSeq : \A p \in PolicyIds :
       /\ evaluations(p, n) > 0 => Contains(registeredAt[n], p)
       /\ (p \in enabledAt[n] /\ ~evaluating(n)) => evaluations(p, n) >= 1

----------------------------------------------------------------------------
(* Pending queue: claim C38 (SpecQueue) *)

\* The messages published after the first c of all, in publish order
publishedAfter(c) == SubSeq(sent, c + 1, Len(sent))

\* C38: the queue holds the messages published since it was last cleared, each
\* once and in publish order, however many they are: a step either clears it (a
\* caller's clearQueue, or a tick that finishes) or appends the messages published
\* in the step; subscribing, unsubscribing, getQueue and a change of the list
\* getQueue returned leave the queue alone, and getQueue returns its elements.
C38_QueueIsPublishedSinceClear ==
    [][/\ \E c \in 0..Len(sent) : messageQueue = publishedAfter(c)
       /\ \/ /\ messageQueue' = <<>>
             /\ \/ ClearQueue
                \/ TimerFires
                \/ \E k \in 1..Len(ticks) : AgentResolves(k)
          \/ messageQueue' = messageQueue \o SubSeq(sent', Len(sent) + 1, Len(sent'))
       /\ (Subscribe("doc", "c1") \/ Unsubscribe("doc", "c1") \/ ChangeHeld)
             => UNCHANGED messageQueue
       /\ GetQueue => UNCHANGED messageQueue /\ heldList' = messageQueue]_vars

\* The queue was cleared after the first message and holds the second; a caller
\* unsubscribed, took the list getQueue returned and removed its element.
C38_Witness ==
    /\ Len(sent) = 2 /\ Len(messageQueue) = 1 /\ messageQueue[1].seq = 2
    /\ <<"doc", "c1">> \in called
    /\ held # <<>> /\ ~held[1].alias /\ heldList = <<>>

----------------------------------------------------------------------------
(* Independent systems: claim C39 (SpecIndependence) *)

\* C39: of the two systems a caller holds, a step changes the fields and histories
\* of at most one: publishing, subscribing, registering, starting, stopping, a
\* tick and a continuation in the system in use leave the other system as it is,
\* and so do createSystem and destroySystem with the id of the system in use,
\* while createSystem and destroySystem with the id of the other system leave
\* the system in use as it is; destroySystem(id) changes what getSystem returns
\* for no other id.
C39_SystemsIndependent ==
    [][/\ other # <<>> =>
             \/ Switch
             \/ other' = other
             \/ /\ UNCHANGED componentVars
                /\ \E id \in {other[1].swarmId} :
                      \/ DestroySystem(id)
                      \/ id \notin DOMAIN messageBuses /\ CreateSystem(id)
       /\ \A id \in TwoSystemIds :
             (DestroySystem(id) \/ CreateSystem(id)) =>
                /\ \A j \in TwoSystemIds \ {id} : getSystem(j)' = getSystem(j)
                /\ id # swarmId => UNCHANGED componentVars
                /\ id = swarmId => other' = other]_vars

\* Both systems have an agent and were started; the one in use was then destroyed
\* and is stopped, while the other one is still running, its policy engine was
\* notified of a message and its coordinator has processed that message.
C39_Witness ==
    /\ other # <<>>
    /\ other[1].isRunning /\ other[1].timers = 1
    /\ other[1].delivered = << <<"pe", 1>> >>
    /\ other[1].handed = << <<1, "A1">> >> /\ other[1].processedMessages = 1
    /\ getSystem(other[1].swarmId) = Components(<<other[1].instance>>)
    /\ getSystem(swarmId) = Components(<<>>)
    /\ agents = <<"A1">>
    /\ ~isRunning /\ timers = 0 /\ lifecycle = <<"swarm:stopped">>

====
